---- MODULE Spec2Model ----
(***************************************************************************)
(* Port allocator (PortManager), configuration store (ConfigManager) and   *)
(* installation coordinator (PackageManager) of webapp-runner, as a state  *)
(* machine.  An asynchronous call is a task; one step of a task runs from  *)
(* the completion of one I/O operation (an await) to the start of the      *)
(* next one, which is how the JavaScript event loop interleaves calls.     *)
(***************************************************************************)
EXTENDS Integers, Sequences, FiniteSets

\* ---------------------------------------------------------------- bounds
\* The host ports of the model are defaultRangeStart .. defaultRangeStart + MaxSpan.
MaxSpan == 1
\* Calls of the port allocator made in one behaviour.
MaxCalls == 3
\* Calls of install / uninstall made in one behaviour.
MaxInstalls == 3
\* Times an unrelated process binds or frees a port in one behaviour.
MaxHostEvents == 1
\* Calls of install made in one behaviour of overlapping installs.
MaxParInstalls == 2
\* Calls of install made in one behaviour over packages of every configuration.
MaxStepInstalls == 1
\* Longest display name given to sanitizeAppName, beside the example name.
MaxNameLen == 3
\* Calls of the service manager made in one behaviour.
MaxSvcCalls == 3

\* ------------------------------------------------------ program constants
DefaultRangeStart == 8000
DefaultRangeEnd == 9000
WebScanStart == 8000
DbScanStart == 3306
SystemReservedPorts ==
    {21, 22, 23, 25, 53, 80, 110, 143, 443, 993, 995,
     3306, 5432, 6379, 27017,
     9000, 9001}

\* The services of servicesConfig the model follows.
ServiceNames == {"php", "nginx"}
\* process.platform
Platforms == {"win32", "linux"}
\* services.get(name) of a service that has no child process: undefined
NoHandle == 0

\* The concurrent callers (two asynchronous calls may be in flight).
Tasks == {"t1", "t2"}
\* The ports callers name and unrelated processes of the host may bind.
ModelPorts == DefaultRangeStart .. (DefaultRangeStart + MaxSpan)
\* An omitted (null) argument; JavaScript's `x || default` also treats 0 so.
Null == 0

VARIABLES
    reservedPorts,      \* PortManager.reservedPorts of the application's instance
    defaultRangeStart,  \* PortManager.defaultRangeStart
    defaultRangeEnd,    \* PortManager.defaultRangeEnd
    globalFile,         \* ports.reserved as stored in config/global.json
    osBound,            \* ports bound by processes unrelated to the tool
    hostEvents,         \* number of changes of osBound so far
    lowBound,           \* other processes hold every port below the web range
    appsDir,            \* apps/<appName>: the install directories and their content
    installedApps,      \* PackageManager.installedApps
    databases,          \* the databases of the MySQL server, by application
    vhosts,             \* runtime/nginx/conf/sites/<appName>.conf
    task,               \* the calls in flight, one record per caller
    calls,              \* number of port allocator and configuration calls made so far
    installs,           \* number of install / uninstall calls made so far
    heldPorts,          \* history: ports whose reserve succeeded, not released since
    heldBy,             \* history: <<port, owner>> of those reserves
    platform,           \* ServiceManager.platform (process.platform)
    services,           \* ServiceManager.services: the child process kept per service
    procs,              \* the processes alive on the host, by service
    scm,                \* Windows service control manager: the state of each service
    nextPid,            \* the next process identity the host hands out
    svcCalls,           \* number of service calls made so far
    catalog,            \* the names of ServiceManager.servicesConfig
    appsConfig,         \* ConfigManager.appsConfig of the application's instance
    appsFile            \* the content of config/apps.json

portState == <<reservedPorts, defaultRangeStart, defaultRangeEnd, globalFile>>
hostState == <<osBound, hostEvents, lowBound>>
cfgState == <<appsConfig, appsFile>>
pkgState == <<appsDir, installedApps, databases, vhosts>>
svcState == <<platform, services, procs, scm, nextPid, svcCalls, catalog>>
vars == <<reservedPorts, defaultRangeStart, defaultRangeEnd, globalFile, osBound,
          hostEvents, lowBound, appsDir, installedApps, databases, vhosts, task, calls,
          installs, heldPorts, heldBy, platform, services, procs, scm, nextPid,
          svcCalls, catalog, appsConfig, appsFile>>

NoReq == [web |-> 0, database |-> 0, redis |-> 0, custom |-> 0]
NoCfg == [databaseRequired |-> FALSE, migrations |-> FALSE, seeders |-> FALSE,
          frontendBuild |-> FALSE]
NoPkg == [name |-> <<>>, cfg |-> NoCfg, files |-> {}]

IdleTask ==
    [op |-> "none", pc |-> "idle", app |-> <<>>, argA |-> Null, argB |-> Null,
     lo |-> 0, hi |-> 0, count |-> 0, req |-> NoReq, port |-> 0, ports |-> <<>>,
     idx |-> 0, result |-> <<>>, err |-> "", snap |-> {},
     pkg |-> NoPkg, cfg |-> NoCfg, phase |-> "", appPort |-> 0, dbPort |-> 0,
     steps |-> <<>>, failedAt |-> "", sawDir |-> FALSE, sawRecord |-> FALSE,
     dbCreated |-> FALSE, svc |-> "", ticket |-> 0, before |-> NoHandle,
     pidsBefore |-> {}, wasRunning |-> FALSE, running |-> FALSE,
     overlapped |-> FALSE]

\* --------------------------------------------------------- sanitizeAppName

Upper == <<"A", "B", "C", "D", "E", "F", "G", "H", "I", "J", "K", "L", "M",
           "N", "O", "P", "Q", "R", "S", "T", "U", "V", "W", "X", "Y", "Z">>
Lower == <<"a", "b", "c", "d", "e", "f", "g", "h", "i", "j", "k", "l", "m",
           "n", "o", "p", "q", "r", "s", "t", "u", "v", "w", "x", "y", "z">>
Digits == {"0", "1", "2", "3", "4", "5", "6", "7", "8", "9"}

\* name.toLowerCase(), one character
LowerCase(c) ==
    IF \E i \in 1..Len(Upper) : Upper[i] = c
    THEN Lower[CHOOSE i \in 1..Len(Upper) : Upper[i] = c]
    ELSE c

IsAlnum(c) == c \in Digits \/ \E i \in 1..Len(Lower) : Lower[i] = c

\* .replace(/_+/g, '_')
RECURSIVE CollapseUnderscores(_)
CollapseUnderscores(s) ==
    IF Len(s) <= 1 THEN s
    ELSE IF s[1] = "_" /\ s[2] = "_" THEN CollapseUnderscores(Tail(s))
    ELSE <<s[1]>> \o CollapseUnderscores(Tail(s))

\* .replace(/^_|_$/g, '')
StripUnderscores(s) ==
    LET a == IF Len(s) > 0 /\ s[1] = "_" THEN Tail(s) ELSE s
    IN IF Len(a) > 0 /\ a[Len(a)] = "_" THEN SubSeq(a, 1, Len(a) - 1) ELSE a

sanitizeNoCollapse(name) ==
    LET low == [i \in 1..Len(name) |-> LowerCase(name[i])]
        rep == [i \in 1..Len(low) |-> IF IsAlnum(low[i]) THEN low[i] ELSE "_"]
    IN StripUnderscores(rep)

sanitizeAppName(name) ==
    LET low == [i \in 1..Len(name) |-> LowerCase(name[i])]
        rep == [i \in 1..Len(low) |-> IF IsAlnum(low[i]) THEN low[i] ELSE "_"]
    IN StripUnderscores(CollapseUnderscores(rep))

\* The display names of the packages offered (packageInfo.name) and the
\* application identifiers installPackage derives from them.
PackageNames == {<<"A", "!">>, <<"B">>}
AppIds == {sanitizeAppName(n) : n \in PackageNames}

\* ------------------------------------------------------------ PortManager

\* isPortAvailable, the synchronous part: system reserved or reserved by us.
SyncUnavailableNoReserved(port, reserved) == port \in SystemReservedPorts
SyncUnavailable(port, reserved) ==
    port \in SystemReservedPorts \/ port \in reserved

\* Ports on which a probe socket of another call is listening right now.
ProbeHeld(t) ==
    {task[u].port : u \in {v \in Tasks \ {t} : task[v].pc \in {"scan_close", "res_close"}}}

\* The ports findAvailablePort(3306) probes before it reaches the web range.
LowPorts == (DbScanStart + 1) .. (WebScanStart - 1)

\* A process of the host other than the tool holds the port.
HostHolds(port) == port \in osBound \/ (lowBound /\ port \in LowPorts)

\* isPortAvailable, the probe: server.listen(port) succeeds iff nothing holds the port.
ListenNeverFails(t, port) == FALSE
ListenFails(t, port) == HostHolds(port) \/ port \in ProbeHeld(t)

\* `startPort || this.defaultRangeStart`
OrDefault(arg, dflt) == IF arg = Null THEN dflt ELSE arg

\* The reservedPorts a call reads: install makes its own `new PortManager()`,
\* whose set is empty; every other call uses the application's instance.
ReservedSeenBy(r, reserved) == IF r.op = "install" THEN {} ELSE reserved

Fail(r, e) == [r EXCEPT !.pc = "failed", !.err = e]
Done(r, res) == [r EXCEPT !.pc = "done", !.result = res]

\* The scan loop up to its next probe: ports refused synchronously are skipped.
RECURSIVE NextProbe(_, _, _)
NextProbe(p, hi, reserved) ==
    IF p > hi THEN p
    ELSE IF SyncUnavailable(p, reserved) THEN NextProbe(p + 1, hi, reserved)
    ELSE p

TotalPorts(req) == req.web + req.database + req.redis + req.custom

\* --------------------------------------------- PackageManager.installPackage
\* What follows each step of installPackage, up to the start of the next I/O.

\* A step threw: control enters the catch block, which asks fs.pathExists(installPath).
InstallFail(r, step, e) == [r EXCEPT !.pc = "catch", !.failedAt = step, !.err = e]

\* History of the steps that completed successfully.
Ran(r, step) == [r EXCEPT !.steps = Append(@, step)]

\* `if (code === 0) resolve(); else reject(...)`
ExitOkAlways(code) == TRUE
ExitOk(code) == code = 0

\* setupLaravelApp after buildAssets: configureWebServer
AfterBuild(r) == [r EXCEPT !.pc = "vhost"]
\* setupLaravelApp after runSeeders
AfterSeeders(r) ==
    IF r.cfg.frontendBuild THEN [r EXCEPT !.pc = "build"] ELSE AfterBuild(r)
AfterMigrationsSeeds(r) == [r EXCEPT !.pc = "seed"]

\* setupLaravelApp after runMigrations
AfterMigrations(r) ==
    IF r.cfg.seeders THEN [r EXCEPT !.pc = "seed"] ELSE AfterSeeders(r)
\* setupLaravelApp after generateAppKey
AfterKeygen(r) ==
    IF r.cfg.migrations THEN [r EXCEPT !.pc = "migrate"] ELSE AfterMigrations(r)
AfterDatabaseSkipsEnv(r) == [r EXCEPT !.pc = "keygen"]

\* installPackage after setupDatabase: setupLaravelApp starts with createEnvFile
AfterDatabase(r) == [r EXCEPT !.pc = "env"]
\* installPackage after installDependencies
AfterDependencies(r) ==
    IF r.cfg.databaseRequired THEN [r EXCEPT !.pc = "db_create"] ELSE AfterDatabase(r)
\* installDependencies after the composer part
AfterComposer(r) ==
    IF r.cfg.frontendBuild THEN [r EXCEPT !.pc = "npm_exists"] ELSE AfterDependencies(r)
\* installPackage after setupAppConfiguration: installDependencies
AfterPorts(r) == [Ran(r, "ports") EXCEPT !.pc = "composer_exists"]

\* ------------------------------------------------- PortManager, the scans

\* reservePort up to its probe: `if (!await this.isPortAvailable(port)) throw`.
StartReserve(r, p, reserved) ==
    IF SyncUnavailable(p, reserved) THEN Fail(r, "PortUnavailable")
    ELSE [r EXCEPT !.pc = "res_listen", !.port = p]

\* allocatePortsForApp: `for (const port of ports) await this.reservePort(port, appName)`.
ReserveLoop(r, reserved) ==
    IF r.idx > Len(r.ports) THEN Done(r, r.ports)
    ELSE StartReserve(r, r.ports[r.idx], reserved)

ScanFinishedDropsOne(r, reserved) == Done(r, Tail(r.ports))

\* The scan of findMultipleAvailablePorts has collected `count` ports.
ScanFinished(r, reserved) ==
    IF r.op = "allocate" THEN ReserveLoop([r EXCEPT !.idx = 1], reserved)
    ELSE Done(r, r.ports)

ScanFromNext(r, p, reserved) ==
    LET q == NextProbe(p + 1, r.hi, reserved) IN
    IF q > r.hi
    THEN IF r.op = "install" THEN InstallFail(r, "ports", "NoPortsAvailable")
         ELSE Fail(r, "NoPortsAvailable")
    ELSE [r EXCEPT !.pc = "scan_listen", !.port = q]

\* The for loop of findAvailablePort / findMultipleAvailablePorts from port p on.
ScanFrom(r, p, reserved) ==
    LET q == NextProbe(p, r.hi, reserved) IN
    IF q > r.hi
    THEN IF r.op = "install" THEN InstallFail(r, "ports", "NoPortsAvailable")
         ELSE Fail(r, "NoPortsAvailable")
    ELSE [r EXCEPT !.pc = "scan_listen", !.port = q]

\* setupAppConfiguration: findAvailablePort(8000), then findAvailablePort(3306),
\* on a PortManager of its own (default range 8000-9000, nothing reserved).
StartWebScan(r) ==
    LET r2 == [r EXCEPT !.phase = "web",
                  !.lo = OrDefault(WebScanStart, DefaultRangeStart),
                  !.hi = OrDefault(Null, DefaultRangeEnd)]
    IN ScanFrom(r2, r2.lo, {})
StartDbScan(r) ==
    LET r2 == [r EXCEPT !.phase = "db",
                  !.lo = OrDefault(DbScanStart, DefaultRangeStart),
                  !.hi = OrDefault(Null, DefaultRangeEnd)]
    IN ScanFrom(r2, r2.lo, {})

\* The probe of r.port answered true.
ScanFound(r, reserved) ==
    IF r.op = "find" THEN Done(r, <<r.port>>)
    ELSE IF r.op = "install"
    THEN IF r.phase = "web" THEN StartDbScan([r EXCEPT !.appPort = r.port])
         ELSE AfterPorts([r EXCEPT !.dbPort = r.port])
    ELSE LET r2 == [r EXCEPT !.ports = Append(r.ports, r.port)] IN
         IF Len(r2.ports) >= r.count THEN ScanFinished(r2, reserved)
         ELSE ScanFrom(r2, r.port + 1, reserved)

\* `this.reservedPorts.add(port)`
AddReservedDropped(reserved, port) == reserved
AddReserved(reserved, port) == reserved \cup {port}

\* ConfigManager.reservePort on a ConfigManager made by `new ConfigManager()`:
\* its globalConfig is the default one, reserved: [], so the list saved is [port].
FreshReserved == <<>>
ConfigReservePort(reservedList, port) ==
    IF \E i \in 1..Len(reservedList) : reservedList[i] = port THEN reservedList
    ELSE Append(reservedList, port)

Idle(t) == task[t].pc = "idle"
CanCall(t) == Idle(t) /\ calls < MaxCalls

Begin(t, r) ==
    /\ task' = [task EXCEPT ![t] = r]
    /\ calls' = calls + 1

\* findAvailablePort(startPort, endPort)
CallFind(t, a, b) ==
    /\ CanCall(t)
    /\ LET r == [IdleTask EXCEPT !.op = "find", !.argA = a, !.argB = b,
                    !.lo = OrDefault(a, defaultRangeStart),
                    !.hi = OrDefault(b, defaultRangeEnd),
                    !.snap = reservedPorts]
       IN Begin(t, ScanFrom(r, r.lo, reservedPorts))
    /\ UNCHANGED <<portState, hostState, cfgState, svcState, pkgState, installs, heldPorts, heldBy>>

FindAvailablePort ==
    \E t \in Tasks, a \in ModelPorts \cup {Null}, b \in ModelPorts \cup {Null} :
        /\ (a # Null /\ b # Null) => a <= b
        /\ CallFind(t, a, b)

\* findMultipleAvailablePorts(count, startPort, endPort)
CallFindMultiple(t, n, a, b) ==
    /\ CanCall(t)
    /\ LET r == [IdleTask EXCEPT !.op = "findMultiple", !.argA = a, !.argB = b,
                    !.count = n,
                    !.lo = OrDefault(a, defaultRangeStart),
                    !.hi = OrDefault(b, defaultRangeEnd)]
       IN Begin(t, IF n <= 0 THEN Done(r, <<>>) ELSE ScanFrom(r, r.lo, reservedPorts))
    /\ UNCHANGED <<portState, hostState, cfgState, svcState, pkgState, installs, heldPorts, heldBy>>

FindMultipleAvailablePorts ==
    \E t \in Tasks, n \in 0..2, a \in {Null, DefaultRangeStart}, b \in ModelPorts \cup {Null} :
        /\ (a # Null /\ b # Null) => a <= b
        /\ CallFindMultiple(t, n, a, b)

\* reservePort(port, appName)
CallReserve(t, p, app) ==
    /\ CanCall(t)
    /\ LET r == [IdleTask EXCEPT !.op = "reserve", !.argA = p, !.app = app]
       IN Begin(t, StartReserve(r, p, reservedPorts))
    /\ UNCHANGED <<portState, hostState, cfgState, svcState, pkgState, installs, heldPorts, heldBy>>

ReservePort == \E t \in Tasks, p \in ModelPorts : CallReserve(t, p, <<>>)

\* reservePort of a port of systemReservedPorts
ReserveSystemPort == \E t \in Tasks : CallReserve(t, DefaultRangeEnd, <<>>)

\* reservePort(port, appName) with an owner
ReservePortFor ==
    \E t \in Tasks, p \in ModelPorts, app \in AppIds : CallReserve(t, p, app)

\* `this.reservedPorts.delete(port)`
RemoveReservedAll(reserved, port) == {}
RemoveReserved(reserved, port) == reserved \ {port}

\* ConfigManager.releasePort: `reserved.splice(reserved.indexOf(port), 1)`
ConfigReleasePort(reservedList, port) ==
    LET Keep(x) == x # port IN SelectSeq(reservedList, Keep)

\* global.json after ConfigManager.releasePort on a ConfigManager made by
\* `new ConfigManager()`: the file is saved only `if (index > -1)`.
SavedByRelease(file, port) ==
    IF \E i \in 1..Len(FreshReserved) : FreshReserved[i] = port
    THEN ConfigReleasePort(FreshReserved, port)
    ELSE file

\* releasePort(port, appName)
CallRelease(t, p, app) ==
    /\ CanCall(t)
    /\ reservedPorts' = RemoveReserved(reservedPorts, p)
    /\ globalFile' = SavedByRelease(globalFile, p)
    /\ heldPorts' = heldPorts \ {p}
    /\ heldBy' = {h \in heldBy : h[1] # p}
    /\ LET r == [IdleTask EXCEPT !.op = "release", !.argA = p, !.app = app]
       IN Begin(t, Done(r, <<p>>))
    /\ UNCHANGED <<defaultRangeStart, defaultRangeEnd, hostState, cfgState, svcState,
                   pkgState, installs>>

ReleasePort == \E t \in Tasks, p \in ModelPorts : CallRelease(t, p, <<>>)

\* The owners ports are reserved for: application identifiers, and the
\* appName each caller passes to allocatePortsForApp.
Owners == AppIds \cup {<<t>> : t \in Tasks}

\* `configManager.getAppConfig(appName).assignedPorts` on a ConfigManager made
\* by `new ConfigManager()`: appsConfig is {}, getAppConfig returns null.
FreshAssignedPorts(app) == <<>>

\* releaseAppPorts / deallocatePortsForApp: releasePort for each assigned port.
CallReleaseAll(t, app, op) ==
    /\ CanCall(t)
    /\ LET ports == FreshAssignedPorts(app)
           released == {ports[i] : i \in 1..Len(ports)}
       IN /\ reservedPorts' = reservedPorts \ released
          /\ globalFile' = globalFile
          /\ heldPorts' = heldPorts \ released
          /\ heldBy' = {h \in heldBy : h[1] \notin released}
          /\ Begin(t, Done([IdleTask EXCEPT !.op = op, !.app = app], ports))
    /\ UNCHANGED <<defaultRangeStart, defaultRangeEnd, hostState, cfgState, svcState,
                   pkgState, installs>>

\* releaseAppPorts(appName)
ReleaseAppPorts == \E t \in Tasks, app \in Owners : CallReleaseAll(t, app, "releaseAll")

\* deallocatePortsForApp(appName)
DeallocatePortsForApp ==
    \E t \in Tasks, app \in Owners : CallReleaseAll(t, app, "deallocate")

\* allocatePortsForApp(appName, requirements)
Requirements ==
    {[NoReq EXCEPT !.web = 1],
     [NoReq EXCEPT !.web = 1, !.database = 1]}

CallAllocate(t, app, req) ==
    /\ CanCall(t)
    /\ LET r == [IdleTask EXCEPT !.op = "allocate", !.app = app, !.req = req,
                    !.count = TotalPorts(req),
                    !.lo = OrDefault(Null, defaultRangeStart),
                    !.hi = OrDefault(Null, defaultRangeEnd)]
       IN Begin(t, IF r.count <= 0 THEN ScanFinished(r, reservedPorts)
                   ELSE ScanFrom(r, r.lo, reservedPorts))
    /\ UNCHANGED <<portState, hostState, cfgState, svcState, pkgState, installs, heldPorts, heldBy>>

AllocatePortsForApp ==
    \E t \in Tasks, req \in Requirements : CallAllocate(t, <<t>>, req)

\* setPortRange(startPort, endPort); the range is set before the first call.
SetPortRange ==
    \E s \in {DefaultRangeStart}, e \in ModelPorts :
        /\ calls = 0
        /\ ~(s >= e) /\ ~(s < 1024) /\ ~(e > 65535)
        /\ <<s, e>> # <<defaultRangeStart, defaultRangeEnd>>
        /\ defaultRangeStart' = s
        /\ defaultRangeEnd' = e
        /\ UNCHANGED <<reservedPorts, globalFile, hostState, cfgState, svcState, pkgState, task, calls,
                       installs, heldPorts, heldBy>>

\* --- the steps of a call in flight

\* A scan's probe: server.listen(port) answers.
ScanListen ==
    \E t \in Tasks :
        /\ task[t].pc = "scan_listen"
        /\ task' = [task EXCEPT ![t] =
                IF ListenFails(t, task[t].port)
                THEN ScanFrom(task[t], task[t].port + 1,
                              ReservedSeenBy(task[t], reservedPorts))
                ELSE [task[t] EXCEPT !.pc = "scan_close"]]
        /\ UNCHANGED <<portState, hostState, cfgState, svcState, pkgState, calls, installs, heldPorts, heldBy>>

\* A scan's probe: the server closed, isPortAvailable resolves true.
ScanClose ==
    \E t \in Tasks :
        /\ task[t].pc = "scan_close"
        /\ task' = [task EXCEPT ![t] =
                ScanFound(task[t], ReservedSeenBy(task[t], reservedPorts))]
        /\ UNCHANGED <<portState, hostState, cfgState, svcState, pkgState, calls, installs, heldPorts, heldBy>>

\* reservePort's probe: server.listen(port) answers.
ReserveListen ==
    \E t \in Tasks :
        /\ task[t].pc = "res_listen"
        /\ task' = [task EXCEPT ![t] =
                IF ListenFails(t, task[t].port) THEN Fail(task[t], "PortUnavailable")
                ELSE [task[t] EXCEPT !.pc = "res_close"]]
        /\ UNCHANGED <<portState, hostState, cfgState, svcState, pkgState, calls, installs, heldPorts, heldBy>>

\* reservePort's probe resolved true: reservedPorts.add(port), then the save starts.
ReserveClose ==
    \E t \in Tasks :
        /\ task[t].pc = "res_close"
        /\ reservedPorts' = AddReserved(reservedPorts, task[t].port)
        /\ task' = [task EXCEPT ![t].pc = "res_save"]
        /\ UNCHANGED <<defaultRangeStart, defaultRangeEnd, globalFile, hostState, cfgState, svcState,
                       pkgState, calls, installs, heldPorts, heldBy>>

\* saveGlobalConfig wrote global.json; reservePort returns the port.
ReserveSave ==
    \E t \in Tasks :
        /\ task[t].pc = "res_save"
        /\ globalFile' = ConfigReservePort(FreshReserved, task[t].port)
        /\ heldPorts' = heldPorts \cup {task[t].port}
        /\ heldBy' = heldBy \cup {<<task[t].port, task[t].app>>}
        /\ task' = [task EXCEPT ![t] =
                IF task[t].op = "allocate"
                THEN ReserveLoop([task[t] EXCEPT !.idx = task[t].idx + 1], reservedPorts)
                ELSE Done(task[t], <<task[t].port>>)]
        /\ UNCHANGED <<reservedPorts, defaultRangeStart, defaultRangeEnd, hostState, cfgState, svcState,
                       pkgState, calls, installs>>

\* The caller has its result (or its error).
Return ==
    \E t \in Tasks :
        /\ task[t].pc \in {"done", "failed"}
        /\ task' = [task EXCEPT ![t] = IdleTask]
        /\ UNCHANGED <<portState, hostState, cfgState, svcState, pkgState, calls, installs, heldPorts, heldBy>>

\* --- the host

OsBind ==
    \E p \in ModelPorts :
        /\ hostEvents < MaxHostEvents
        /\ p \notin osBound
        /\ \A t \in Tasks : ~(task[t].pc \in {"scan_close", "res_close"} /\ task[t].port = p)
        /\ osBound' = osBound \cup {p}
        /\ hostEvents' = hostEvents + 1
        /\ UNCHANGED <<lowBound, cfgState, portState, pkgState, svcState, task, calls, installs, heldPorts, heldBy>>

OsRelease ==
    \E p \in osBound :
        /\ hostEvents < MaxHostEvents
        /\ osBound' = osBound \ {p}
        /\ hostEvents' = hostEvents + 1
        /\ UNCHANGED <<lowBound, cfgState, portState, pkgState, svcState, task, calls, installs, heldPorts, heldBy>>

\* ------------------------------------------------ PackageManager, the calls

\* The packages offered for installation: the files of the archive and the
\* content of its install-config.json, under each display name.
AllOn == [databaseRequired |-> TRUE, migrations |-> TRUE, seeders |-> TRUE,
          frontendBuild |-> TRUE]
Bundles ==
    {[cfg |-> AllOn, files |-> {"install-config.json", "composer.json", "package.json"}],
     [cfg |-> NoCfg, files |-> {"install-config.json"}],
     [cfg |-> NoCfg, files |-> {}]}
Packages == {[name |-> n, cfg |-> b.cfg, files |-> b.files] : n \in PackageNames, b \in Bundles}

\* Exit codes of the external processes.
ExitCodes == {0, 1}

\* No entry of installedApps, no app-config.json.
NoApp == [installed |-> FALSE, displayName |-> <<>>, port |-> 0, dbPort |-> 0]
\* No directory apps/<appName>.
NoDir == [exists |-> FALSE, files |-> {}, record |-> NoApp]
EmptyDir == [exists |-> TRUE, files |-> {}, record |-> NoApp]

\* fs.pathExists(installPath)
DirExists(dir, app) == dir[app].exists
\* fs.pathExists(path.join(installPath, file))
FileExists(dir, app, file) == DirExists(dir, app) /\ file \in dir[app].files

\* fs.ensureDir(installPath)
EnsureDir(dir, app) ==
    IF DirExists(dir, app) THEN dir ELSE [dir EXCEPT ![app] = EmptyDir]

\* Files written below installPath.
AddFiles(dir, app, fs) == [dir EXCEPT ![app].files = @ \cup fs]

\* fs.remove(installPath)
RemoveDirNoop(dir, app) == dir
RemoveDirAll(dir, app) == [a \in DOMAIN dir |-> NoDir]
RemoveDir(dir, app) == [dir EXCEPT ![app] = NoDir]

\* Map.has(appName) / Map.set(appName, appConfig) / Map.delete(appName)
MapHasAlways(m, k) == TRUE

MapHas(m, k) == m[k].installed
MapSet(m, k, v) == [m EXCEPT ![k] = v]
MapDelete(m, k) == [m EXCEPT ![k] = NoApp]

\* The appConfig built by setupAppConfiguration.
AppConfig(r) ==
    [installed |-> TRUE, displayName |-> r.pkg.name, port |-> r.appPort,
     dbPort |-> r.dbPort]

CanInstall(t) == Idle(t) /\ installs < MaxInstalls

Step(t, r) == task' = [task EXCEPT ![t] = r]

\* installPackage(packageInfo): up to `await fs.pathExists(installPath)`.
CallInstall(t, pkg) ==
    /\ CanInstall(t)
    /\ Step(t, [IdleTask EXCEPT !.op = "install", !.pc = "check", !.pkg = pkg,
                                !.app = sanitizeAppName(pkg.name)])
    /\ installs' = installs + 1
    /\ UNCHANGED <<portState, hostState, cfgState, svcState, pkgState, calls, heldPorts, heldBy>>

InstallPackage == \E t \in Tasks, pkg \in Packages : CallInstall(t, pkg)

\* `if (await fs.pathExists(installPath)) throw ...already installed`
InstallCheckExists ==
    \E t \in Tasks :
        /\ task[t].pc = "check"
        /\ LET r == [task[t] EXCEPT !.sawDir = DirExists(appsDir, task[t].app),
                                    !.sawRecord = MapHas(installedApps, task[t].app)]
           IN Step(t, IF DirExists(appsDir, r.app)
                      THEN InstallFail(r, "check", "AlreadyInstalled")
                      ELSE [r EXCEPT !.pc = "mkdir"])
        /\ UNCHANGED <<portState, hostState, cfgState, svcState, pkgState, calls, installs, heldPorts, heldBy>>

\* `await fs.ensureDir(installPath)`
InstallEnsureDir ==
    \E t \in Tasks :
        /\ task[t].pc = "mkdir"
        /\ appsDir' = EnsureDir(appsDir, task[t].app)
        /\ Step(t, [task[t] EXCEPT !.pc = "extract"])
        /\ UNCHANGED <<portState, hostState, cfgState, svcState, installedApps, databases, vhosts,
                       calls, installs, heldPorts, heldBy>>

\* `await this.extractPackage(packagePath, installPath)`: the archive opens and
\* its entries are written (each below an ensureDir), or yauzl reports an error.
ExtractPackage ==
    \E t \in Tasks, ok \in BOOLEAN :
        /\ task[t].pc = "extract"
        /\ IF ok
           THEN /\ appsDir' = AddFiles(EnsureDir(appsDir, task[t].app), task[t].app,
                                       task[t].pkg.files)
                /\ Step(t, [Ran(task[t], "extract") EXCEPT !.pc = "readcfg"])
           ELSE /\ appsDir' = appsDir
                /\ Step(t, InstallFail(task[t], "extract", "ExtractFailed"))
        /\ UNCHANGED <<portState, hostState, cfgState, svcState, installedApps, databases, vhosts,
                       calls, installs, heldPorts, heldBy>>

\* `await fs.readJson(installConfigPath)`, then setupAppConfiguration up to the
\* first probe of its findAvailablePort(8000).
ReadInstallConfig ==
    \E t \in Tasks :
        /\ task[t].pc = "readcfg"
        /\ Step(t, IF FileExists(appsDir, task[t].app, "install-config.json")
                   THEN StartWebScan([Ran(task[t], "readcfg") EXCEPT
                                         !.cfg = task[t].pkg.cfg])
                   ELSE InstallFail(task[t], "readcfg", "ReadFailed"))
        /\ UNCHANGED <<portState, hostState, cfgState, svcState, pkgState, calls, installs, heldPorts, heldBy>>

\* installDependencies: `await fs.pathExists(path.join(installPath, 'composer.json'))`
ComposerExists ==
    \E t \in Tasks :
        /\ task[t].pc = "composer_exists"
        /\ Step(t, IF FileExists(appsDir, task[t].app, "composer.json")
                   THEN [task[t] EXCEPT !.pc = "composer"]
                   ELSE AfterComposer(task[t]))
        /\ UNCHANGED <<portState, hostState, cfgState, svcState, pkgState, calls, installs, heldPorts, heldBy>>

\* History: the step is logged as completed when its process exited with 0.
Completed(r, step, code) == IF code = 0 THEN Ran(r, step) ELSE r

\* An external process run in installPath closed with `code`; spawn reports an
\* error when its working directory is missing.
ProcessEnds(r, step, code, next) ==
    IF ~DirExists(appsDir, r.app) THEN InstallFail(r, step, "SpawnFailed")
    ELSE IF ExitOk(code) THEN next
    ELSE InstallFail(r, step, "ExitCode")

\* runComposerInstall
RunComposerInstall ==
    \E t \in Tasks, code \in ExitCodes :
        /\ task[t].pc = "composer"
        /\ Step(t, ProcessEnds(task[t], "composer", code,
                               AfterComposer(Completed(task[t], "composer", code))))
        /\ UNCHANGED <<portState, hostState, cfgState, svcState, pkgState, calls, installs, heldPorts, heldBy>>

\* installDependencies: `installConfig.frontendBuild && await fs.pathExists(...'package.json')`
NpmExists ==
    \E t \in Tasks :
        /\ task[t].pc = "npm_exists"
        /\ Step(t, IF FileExists(appsDir, task[t].app, "package.json")
                   THEN [task[t] EXCEPT !.pc = "npm"]
                   ELSE AfterDependencies(task[t]))
        /\ UNCHANGED <<portState, hostState, cfgState, svcState, pkgState, calls, installs, heldPorts, heldBy>>

\* runNpmInstall
RunNpmInstall ==
    \E t \in Tasks, code \in ExitCodes :
        /\ task[t].pc = "npm"
        /\ Step(t, ProcessEnds(task[t], "npm", code,
                               AfterDependencies(Completed(task[t], "npm", code))))
        /\ UNCHANGED <<portState, hostState, cfgState, svcState, pkgState, calls, installs, heldPorts, heldBy>>

\* setupDatabase, createDatabase: CREATE DATABASE IF NOT EXISTS answered.
CreateDatabase ==
    \E t \in Tasks, ok \in BOOLEAN :
        /\ task[t].pc = "db_create"
        /\ IF ok
           THEN /\ databases' = databases \cup {task[t].app}
                /\ Step(t, [task[t] EXCEPT !.pc = "db_user",
                                           !.dbCreated = task[t].app \notin databases])
           ELSE /\ databases' = databases
                /\ Step(t, InstallFail(task[t], "database", "CreateDatabaseFailed"))
        /\ UNCHANGED <<portState, hostState, cfgState, svcState, appsDir, installedApps, vhosts,
                       calls, installs, heldPorts, heldBy>>

\* createDatabase: CREATE USER / GRANT / FLUSH PRIVILEGES answered.
CreateDbUser ==
    \E t \in Tasks, ok \in BOOLEAN :
        /\ task[t].pc = "db_user"
        /\ Step(t, IF ok THEN AfterDatabase(Ran(task[t], "database"))
                   ELSE InstallFail(task[t], "database", "CreateUserFailed"))
        /\ UNCHANGED <<portState, hostState, cfgState, svcState, pkgState, calls, installs, heldPorts, heldBy>>

\* setupLaravelApp, createEnvFile: fs.writeFile(path.join(installPath, '.env'))
CreateEnvFile ==
    \E t \in Tasks :
        /\ task[t].pc = "env"
        /\ IF DirExists(appsDir, task[t].app)
           THEN /\ appsDir' = AddFiles(appsDir, task[t].app, {".env"})
                /\ Step(t, [Ran(task[t], "env") EXCEPT !.pc = "keygen"])
           ELSE /\ appsDir' = appsDir
                /\ Step(t, InstallFail(task[t], "env", "WriteFailed"))
        /\ UNCHANGED <<portState, hostState, cfgState, svcState, installedApps, databases, vhosts,
                       calls, installs, heldPorts, heldBy>>

\* generateAppKey
GenerateAppKey ==
    \E t \in Tasks, code \in ExitCodes :
        /\ task[t].pc = "keygen"
        /\ Step(t, ProcessEnds(task[t], "keygen", code,
                               AfterKeygen(Completed(task[t], "keygen", code))))
        /\ UNCHANGED <<portState, hostState, cfgState, svcState, pkgState, calls, installs, heldPorts, heldBy>>

\* runMigrations
RunMigrations ==
    \E t \in Tasks, code \in ExitCodes :
        /\ task[t].pc = "migrate"
        /\ Step(t, ProcessEnds(task[t], "migrate", code,
                               AfterMigrations(Completed(task[t], "migrate", code))))
        /\ UNCHANGED <<portState, hostState, cfgState, svcState, pkgState, calls, installs, heldPorts, heldBy>>

\* runSeeders
RunSeeders ==
    \E t \in Tasks, code \in ExitCodes :
        /\ task[t].pc = "seed"
        /\ Step(t, ProcessEnds(task[t], "seed", code,
                               AfterSeeders(Completed(task[t], "seed", code))))
        /\ UNCHANGED <<portState, hostState, cfgState, svcState, pkgState, calls, installs, heldPorts, heldBy>>

\* buildAssets
BuildAssets ==
    \E t \in Tasks, code \in ExitCodes :
        /\ task[t].pc = "build"
        /\ Step(t, ProcessEnds(task[t], "build", code,
                               AfterBuild(Completed(task[t], "build", code))))
        /\ UNCHANGED <<portState, hostState, cfgState, svcState, pkgState, calls, installs, heldPorts, heldBy>>

\* configureWebServer: the virtual host file is written.
ConfigureWebServer ==
    \E t \in Tasks :
        /\ task[t].pc = "vhost"
        /\ vhosts' = vhosts \cup {task[t].app}
        /\ Step(t, [Ran(task[t], "vhost") EXCEPT !.pc = "persist"])
        /\ UNCHANGED <<portState, hostState, cfgState, svcState, appsDir, installedApps, databases,
                       calls, installs, heldPorts, heldBy>>

\* `await fs.writeJson(.../app-config.json, appConfig)` answered; on success
\* `this.installedApps.set(appName, appConfig)` and the call returns.
SaveAppConfig ==
    \E t \in Tasks, ok \in BOOLEAN :
        /\ task[t].pc = "persist"
        /\ IF ok /\ DirExists(appsDir, task[t].app)
           THEN /\ appsDir' = [AddFiles(appsDir, task[t].app, {"app-config.json"})
                                  EXCEPT ![task[t].app].record = AppConfig(task[t])]
                /\ installedApps' = MapSet(installedApps, task[t].app, AppConfig(task[t]))
                /\ Step(t, Done(Ran(task[t], "persist"),
                                <<task[t].appPort, task[t].dbPort>>))
           ELSE /\ UNCHANGED <<appsDir, installedApps>>
                /\ Step(t, InstallFail(task[t], "persist", "WriteFailed"))
        /\ UNCHANGED <<portState, hostState, cfgState, svcState, databases, vhosts, calls, installs,
                       heldPorts, heldBy>>

\* History: another install, of another application, is in progress with its
\* directory in place.
InstallBeside(t) ==
    \E u \in Tasks \ {t} :
        /\ task[u].op = "install"
        /\ task[u].pc \notin {"idle", "done", "failed", "catch", "remove"}
        /\ task[u].app # task[t].app
        /\ DirExists(appsDir, task[u].app)

\* catch: `if (await fs.pathExists(installPath))` answered.
CatchExists ==
    \E t \in Tasks :
        /\ task[t].pc = "catch"
        /\ Step(t, IF DirExists(appsDir, task[t].app)
                   THEN [task[t] EXCEPT !.pc = "remove"]
                   ELSE [task[t] EXCEPT !.pc = "failed"])
        /\ UNCHANGED <<portState, hostState, cfgState, svcState, pkgState, calls, installs, heldPorts, heldBy>>

\* catch: `await fs.remove(installPath)` answered; `throw error`.
CatchRemove ==
    \E t \in Tasks :
        /\ task[t].pc = "remove"
        /\ appsDir' = RemoveDir(appsDir, task[t].app)
        /\ Step(t, [task[t] EXCEPT !.pc = "failed",
                                   !.overlapped = InstallBeside(t)])
        /\ UNCHANGED <<portState, hostState, cfgState, svcState, installedApps, databases, vhosts,
                       calls, installs, heldPorts, heldBy>>

\* uninstallPackage(appName): `this.installedApps.get(appName)`, then up to
\* `await fs.pathExists(vhostPath)`.
CallUninstall(t, app) ==
    /\ CanInstall(t)
    /\ LET r == [IdleTask EXCEPT !.op = "uninstall", !.app = app] IN
       Step(t, IF ~MapHas(installedApps, app) THEN Fail(r, "NotInstalled")
               ELSE [r EXCEPT !.pc = "u_vhost_exists"])
    /\ installs' = installs + 1
    /\ UNCHANGED <<portState, hostState, cfgState, svcState, pkgState, calls, heldPorts, heldBy>>

UninstallPackage == \E t \in Tasks, app \in AppIds : CallUninstall(t, app)

UninstallVhostExists ==
    \E t \in Tasks :
        /\ task[t].pc = "u_vhost_exists"
        /\ Step(t, IF task[t].app \in vhosts
                   THEN [task[t] EXCEPT !.pc = "u_vhost_remove"]
                   ELSE [task[t] EXCEPT !.pc = "u_dropdb"])
        /\ UNCHANGED <<portState, hostState, cfgState, svcState, pkgState, calls, installs, heldPorts, heldBy>>

UninstallVhostRemove ==
    \E t \in Tasks :
        /\ task[t].pc = "u_vhost_remove"
        /\ vhosts' = vhosts \ {task[t].app}
        /\ Step(t, [task[t] EXCEPT !.pc = "u_dropdb"])
        /\ UNCHANGED <<portState, hostState, cfgState, svcState, appsDir, installedApps, databases,
                       calls, installs, heldPorts, heldBy>>

DropDatabaseForgetsRecord ==
    \E t \in Tasks, ok \in BOOLEAN :
        /\ task[t].pc = "u_dropdb"
        /\ IF ok
           THEN /\ databases' = databases \ {task[t].app}
                /\ installedApps' = installedApps
                /\ Step(t, [task[t] EXCEPT !.pc = "u_dir_exists"])
           ELSE /\ databases' = databases
                /\ installedApps' = MapDelete(installedApps, task[t].app)
                /\ Step(t, Fail(task[t], "DropDatabaseFailed"))
        /\ UNCHANGED <<portState, hostState, cfgState, svcState, appsDir, vhosts,
                       calls, installs, heldPorts, heldBy>>

\* dropDatabase: DROP DATABASE IF EXISTS answered (appConfig.database is always set).
DropDatabase ==
    \E t \in Tasks, ok \in BOOLEAN :
        /\ task[t].pc = "u_dropdb"
        /\ IF ok
           THEN /\ databases' = databases \ {task[t].app}
                /\ Step(t, [task[t] EXCEPT !.pc = "u_dir_exists"])
           ELSE /\ databases' = databases
                /\ Step(t, Fail(task[t], "DropDatabaseFailed"))
        /\ UNCHANGED <<portState, hostState, cfgState, svcState, appsDir, installedApps, vhosts,
                       calls, installs, heldPorts, heldBy>>

\* `if (await fs.pathExists(installPath))` answered; when the directory is
\* missing, installedApps.delete(appName) follows at once.
UninstallDirExists ==
    \E t \in Tasks :
        /\ task[t].pc = "u_dir_exists"
        /\ IF DirExists(appsDir, task[t].app)
           THEN /\ installedApps' = installedApps
                /\ Step(t, [task[t] EXCEPT !.pc = "u_dir_remove"])
           ELSE /\ installedApps' = MapDelete(installedApps, task[t].app)
                /\ Step(t, Done(task[t], <<>>))
        /\ UNCHANGED <<portState, hostState, cfgState, svcState, appsDir, databases, vhosts,
                       calls, installs, heldPorts, heldBy>>

\* `await fs.remove(installPath)` answered; installedApps.delete(appName).
UninstallDirRemove ==
    \E t \in Tasks :
        /\ task[t].pc = "u_dir_remove"
        /\ appsDir' = RemoveDir(appsDir, task[t].app)
        /\ installedApps' = MapDelete(installedApps, task[t].app)
        /\ Step(t, Done(task[t], <<>>))
        /\ UNCHANGED <<portState, hostState, cfgState, svcState, databases, vhosts, calls, installs,
                       heldPorts, heldBy>>


\* --------------------------------------------------------- ServiceManager

\* The names callers pass: the catalog's names and one that is not in it.
RequestedNames == ServiceNames \cup {"redis"}

\* The processes of the host that run the service's executable.
Pids(n) == {p[2] : p \in {q \in procs : q[1] = n}}

KillAll(n) == {q \in procs : q[1] # n}

\* getUnixServiceStatus: `pgrep -f` prints the processes of that executable.
\* getWindowsServiceStatus: `sc query` reports RUNNING.
StatusRunning(n) ==
    IF n \notin catalog THEN FALSE
    ELSE IF platform = "win32" THEN scm[n] = "running"
    ELSE Pids(n) # {}

CanCallService(t) == Idle(t) /\ svcCalls < MaxSvcCalls

\* A service call as the caller issued it, with what held when it was issued.
ServiceCall(op, n) ==
    [IdleTask EXCEPT !.op = op, !.svc = n, !.ticket = svcCalls + 1,
                     !.before = IF n \in ServiceNames THEN services[n] ELSE NoHandle,
                     !.pidsBefore = Pids(n), !.wasRunning = StatusRunning(n)]

\* stopService / stopWindowsService / stopUnixService returned success:
\* restartService goes on to its wait, removeService to `sc delete` on win32
\* (reading the name of the descriptor, which throws when it is gone) and to
\* the removal of the descriptor elsewhere, stopService returns.
AfterStop(r) ==
    IF r.op = "restart" THEN [r EXCEPT !.pc = "r_wait"]
    ELSE IF r.op = "remove" /\ platform = "win32"
    THEN IF r.svc \in catalog THEN [r EXCEPT !.pc = "w_delete"]
         ELSE Fail(r, "TypeError")
    ELSE Done(r, <<>>)

\* removeService: `delete this.servicesConfig[serviceName]`
DeleteDescriptor(cat, n) == cat \ {n}

\* The catalog once the stop has succeeded: removeService, off win32, deletes
\* the descriptor in the same step.
CatalogAfterStop(r) ==
    IF r.op = "remove" /\ platform # "win32"
    THEN DeleteDescriptor(catalog, r.svc) ELSE catalog

\* startUnixService: spawn detached, keep the child in this.services, return
\* success.  `alive` is whether the child is running once spawn has returned
\* (it is not when the executable cannot be launched or exits at once).
startUnixService(t, r, alive) ==
    /\ services' = [services EXCEPT ![r.svc] = nextPid]
    /\ procs' = IF alive THEN procs \cup {<<r.svc, nextPid>>} ELSE procs
    /\ nextPid' = nextPid + 1
    /\ Step(t, Done(r, <<>>))

\* startService up to its first await: unknown names throw, win32 queries the
\* service control manager, every other platform spawns.
BeginStart(t, r, alive) ==
    IF r.svc \notin catalog
    THEN /\ Step(t, Fail(r, "UnknownService"))
         /\ UNCHANGED <<services, procs, nextPid>>
    ELSE IF platform = "win32"
    THEN /\ Step(t, [r EXCEPT !.pc = "w_query"])
         /\ UNCHANGED <<services, procs, nextPid>>
    ELSE startUnixService(t, r, alive)

\* stopService up to its first await: unknown names throw, win32 runs
\* `sc stop`; stopUnixService kills the child it kept, if any, and otherwise
\* runs pkill.
BeginStop(t, r) ==
    IF r.svc \notin catalog
    THEN /\ Step(t, Fail(r, "UnknownService"))
         /\ UNCHANGED <<services, procs, catalog>>
    ELSE IF platform = "win32"
    THEN /\ Step(t, [r EXCEPT !.pc = "w_stop"])
         /\ UNCHANGED <<services, procs, catalog>>
    ELSE IF services[r.svc] # NoHandle
    THEN /\ procs' = procs \ {<<r.svc, services[r.svc]>>}
         /\ services' = [services EXCEPT ![r.svc] = NoHandle]
         /\ catalog' = CatalogAfterStop(r)
         /\ Step(t, AfterStop(r))
    ELSE /\ Step(t, [r EXCEPT !.pc = "u_pkill"])
         /\ UNCHANGED <<services, procs, catalog>>

StartService ==
    \E t \in Tasks, n \in RequestedNames, alive \in BOOLEAN :
        /\ CanCallService(t)
        /\ BeginStart(t, ServiceCall("start", n), alive)
        /\ svcCalls' = svcCalls + 1
        /\ UNCHANGED <<portState, hostState, cfgState, pkgState, calls, installs, heldPorts,
                       heldBy, platform, catalog, scm>>

StopService ==
    \E t \in Tasks, n \in RequestedNames :
        /\ CanCallService(t)
        /\ BeginStop(t, ServiceCall("stop", n))
        /\ svcCalls' = svcCalls + 1
        /\ UNCHANGED <<portState, hostState, cfgState, pkgState, calls, installs, heldPorts,
                       heldBy, platform, scm, nextPid>>

\* restartService, up to the first await of its stopService.
RestartService ==
    \E t \in Tasks, n \in RequestedNames :
        /\ CanCallService(t)
        /\ BeginStop(t, ServiceCall("restart", n))
        /\ svcCalls' = svcCalls + 1
        /\ UNCHANGED <<portState, hostState, cfgState, pkgState, calls, installs, heldPorts,
                       heldBy, platform, scm, nextPid>>

\* removeService, up to the first await of its stopService.
RemoveService ==
    \E t \in Tasks, n \in RequestedNames :
        /\ CanCallService(t)
        /\ BeginStop(t, ServiceCall("remove", n))
        /\ svcCalls' = svcCalls + 1
        /\ UNCHANGED <<portState, hostState, cfgState, pkgState, calls, installs, heldPorts,
                       heldBy, platform, scm, nextPid>>

\* removeService on win32: `sc delete` answered; it fails for a service the
\* service control manager does not know, and then the descriptor is kept.
WinScDelete ==
    \E t \in Tasks :
        /\ task[t].pc = "w_delete"
        /\ IF scm[task[t].svc] # "absent"
           THEN /\ scm' = [scm EXCEPT ![task[t].svc] =
                               IF @ = "stopped" THEN "absent" ELSE @]
                /\ catalog' = DeleteDescriptor(catalog, task[t].svc)
                /\ Step(t, Done(task[t], <<>>))
           ELSE /\ UNCHANGED <<scm, catalog>>
                /\ Step(t, Fail(task[t], "PlatformOperationFailure"))
        /\ UNCHANGED <<portState, hostState, cfgState, pkgState, calls, installs, heldPorts,
                       heldBy, platform, services, procs, nextPid, svcCalls>>

\* restartService: the two seconds have passed, startService is called.
RestartWait ==
    \E t \in Tasks, alive \in BOOLEAN :
        /\ task[t].pc = "r_wait"
        /\ BeginStart(t, task[t], alive)
        /\ UNCHANGED <<portState, hostState, cfgState, pkgState, calls, installs, heldPorts,
                       heldBy, platform, catalog, scm, svcCalls>>

\* getServiceStatus
GetServiceStatus ==
    \E t \in Tasks, n \in RequestedNames :
        /\ CanCallService(t)
        /\ Step(t, [Done(ServiceCall("status", n), <<>>) EXCEPT
                        !.running = StatusRunning(n)])
        /\ svcCalls' = svcCalls + 1
        /\ UNCHANGED <<portState, hostState, cfgState, pkgState, calls, installs, heldPorts,
                       heldBy, platform, catalog, services, procs, scm, nextPid>>

\* startWindowsService: `sc query` answered.  RUNNING returns at once, a
\* service that does not exist fails the command and the catch creates it.
WinScQuery ==
    \E t \in Tasks :
        /\ task[t].pc = "w_query"
        /\ Step(t, IF scm[task[t].svc] = "running" THEN Done(task[t], <<>>)
                   ELSE IF scm[task[t].svc] = "stopped"
                        THEN [task[t] EXCEPT !.pc = "w_start"]
                   ELSE [task[t] EXCEPT !.pc = "w_create"])
        /\ UNCHANGED <<portState, hostState, cfgState, pkgState, svcState, calls, installs,
                       heldPorts, heldBy>>

\* `sc start`: starts a stopped service when the host lets it (`ok`), and
\* fails otherwise.
ScStart(t, ok, failed) ==
    IF scm[task[t].svc] = "stopped" /\ ok
    THEN /\ scm' = [scm EXCEPT ![task[t].svc] = "running"]
         /\ procs' = procs \cup {<<task[t].svc, nextPid>>}
         /\ nextPid' = nextPid + 1
         /\ Step(t, Done(task[t], <<>>))
    ELSE /\ Step(t, failed)
         /\ UNCHANGED <<scm, procs, nextPid>>

\* startWindowsService: `sc start` answered; its failure lands in the catch
\* that creates the service.
WinScStart ==
    \E t \in Tasks, ok \in BOOLEAN :
        /\ task[t].pc = "w_start"
        /\ ScStart(t, ok, [task[t] EXCEPT !.pc = "w_create"])
        /\ UNCHANGED <<portState, hostState, cfgState, pkgState, calls, installs, heldPorts,
                       heldBy, platform, catalog, services, svcCalls>>

\* createAndStartWindowsService: `sc create` answered; it fails for a service
\* that exists already, or when the host refuses.
WinScCreate ==
    \E t \in Tasks, ok \in BOOLEAN :
        /\ task[t].pc = "w_create"
        /\ IF scm[task[t].svc] = "absent" /\ ok
           THEN /\ scm' = [scm EXCEPT ![task[t].svc] = "stopped"]
                /\ Step(t, [task[t] EXCEPT !.pc = "w_create_start"])
           ELSE /\ scm' = scm
                /\ Step(t, Fail(task[t], "PlatformOperationFailure"))
        /\ UNCHANGED <<portState, hostState, cfgState, pkgState, calls, installs, heldPorts,
                       heldBy, platform, catalog, services, procs, nextPid, svcCalls>>

\* createAndStartWindowsService: `sc start` answered; its failure is rethrown.
WinScCreateStart ==
    \E t \in Tasks, ok \in BOOLEAN :
        /\ task[t].pc = "w_create_start"
        /\ ScStart(t, ok, Fail(task[t], "PlatformOperationFailure"))
        /\ UNCHANGED <<portState, hostState, cfgState, pkgState, calls, installs, heldPorts,
                       heldBy, platform, catalog, services, svcCalls>>

\* stopWindowsService: `sc stop` answered; it fails for a service that is not
\* running, and the error is rethrown.
WinScStop ==
    \E t \in Tasks :
        /\ task[t].pc = "w_stop"
        /\ IF scm[task[t].svc] = "running"
           THEN /\ scm' = [scm EXCEPT ![task[t].svc] = "stopped"]
                /\ procs' = KillAll(task[t].svc)
                /\ Step(t, AfterStop(task[t]))
           ELSE /\ Step(t, Fail(task[t], "PlatformOperationFailure"))
                /\ UNCHANGED <<scm, procs>>
        /\ UNCHANGED <<portState, hostState, cfgState, pkgState, calls, installs, heldPorts,
                       heldBy, platform, catalog, services, nextPid, svcCalls>>

\* stopUnixService: `pkill -f` answered; it fails when it matched no process.
UnixPkill ==
    \E t \in Tasks :
        /\ task[t].pc = "u_pkill"
        /\ IF Pids(task[t].svc) # {}
           THEN /\ procs' = KillAll(task[t].svc)
                /\ catalog' = CatalogAfterStop(task[t])
                /\ Step(t, AfterStop(task[t]))
           ELSE /\ UNCHANGED <<procs, catalog>>
                /\ Step(t, Fail(task[t], "ServiceNotFound"))
        /\ UNCHANGED <<portState, hostState, cfgState, pkgState, calls, installs, heldPorts,
                       heldBy, platform, services, scm, nextPid, svcCalls>>


\* ----------------------------------------------------------- ConfigManager

\* The fields of an application's configuration the callers update.
ConfigFields == {"displayName", "port"}

\* `{ ...this.appsConfig[appName], ...config }` with config = { field: value };
\* a configuration is the set of its <<application, field, value>> entries.
MergeConfig(cfg, app, field, value) ==
    {e \in cfg : ~(e[1] = app /\ e[2] = field)} \cup {<<app, field, value>>}

\* updateAppConfig(appName, config): the merge, then saveAppsConfig up to its
\* fs.writeJson, which serializes this.appsConfig when it is called.
UpdateAppConfig ==
    \E t \in Tasks, app \in AppIds, field \in ConfigFields :
        /\ CanCall(t)
        /\ appsConfig' = MergeConfig(appsConfig, app, field, calls + 1)
        /\ Begin(t, [IdleTask EXCEPT !.op = "update", !.pc = "save", !.app = app,
                                     !.phase = field, !.argA = calls + 1,
                                     !.snap = appsConfig'])
        /\ UNCHANGED <<appsFile, portState, hostState, svcState, pkgState, installs,
                       heldPorts, heldBy>>

\* saveAppsConfig: the write of apps.json completed; updateAppConfig returns
\* getAppConfig(appName).
SaveAppsConfig ==
    \E t \in Tasks :
        /\ task[t].pc = "save"
        /\ appsFile' = task[t].snap
        /\ Step(t, Done(task[t], <<>>))
        /\ UNCHANGED <<appsConfig, portState, hostState, svcState, pkgState, calls,
                       installs, heldPorts, heldBy>>

\* ------------------------------------------------------ the application

\* loadReservedPorts: `new Set(configManager.getReservedPorts())` on a
\* ConfigManager made by `new ConfigManager()`, whose list is the default one.
LoadedReservedPorts == {FreshReserved[i] : i \in 1..Len(FreshReserved)}

\* The application is closed and started again: the constructor of
\* LaravelDeploymentApp makes new managers and initializeCoreServices
\* initializes the configuration, service, port and database managers (not
\* the package manager); loadAppsConfig reads apps.json.  Files, databases and the detached processes of the
\* services stay as they are.
Restart ==
    /\ reservedPorts' = LoadedReservedPorts
    /\ defaultRangeStart' = DefaultRangeStart
    /\ defaultRangeEnd' = DefaultRangeEnd
    /\ installedApps' = [a \in AppIds |-> NoApp]
    /\ services' = [n \in ServiceNames |-> NoHandle]
    /\ catalog' = ServiceNames
    /\ appsConfig' = appsFile
    /\ UNCHANGED <<globalFile, appsFile, hostState, appsDir, databases, vhosts, task, calls,
                   installs, heldPorts, heldBy, platform, procs, scm, nextPid,
                   svcCalls>>

\* ------------------------------------------------------------ specifications

Init ==
    /\ reservedPorts = {}
    /\ defaultRangeStart = DefaultRangeStart
    /\ defaultRangeEnd = DefaultRangeEnd
    /\ globalFile = <<>>
    /\ osBound \in SUBSET ModelPorts
    /\ hostEvents = 0
    /\ lowBound = FALSE
    /\ appsDir = [a \in AppIds |-> NoDir]
    /\ installedApps = [a \in AppIds |-> NoApp]
    /\ databases = {}
    /\ vhosts = {}
    /\ task = [t \in Tasks |-> IdleTask]
    /\ calls = 0
    /\ installs = 0
    /\ heldPorts = {}
    /\ heldBy = {}
    /\ platform = "linux"
    /\ services = [n \in ServiceNames |-> NoHandle]
    /\ procs = {}
    /\ scm = [n \in ServiceNames |-> "absent"]
    /\ nextPid = 1
    /\ svcCalls = 0
    /\ catalog = ServiceNames
    /\ appsConfig = {}
    /\ appsFile = {}

Quiet == \A t \in Tasks : Idle(t)

Next ==
    \/ ReservePort
    \/ ReleasePort
    \/ AllocatePortsForApp
    \/ SetPortRange
    \/ ScanListen
    \/ ScanClose
    \/ ReserveListen
    \/ ReserveClose
    \/ ReserveSave
    \/ Return
    \/ OsBind
    \/ OsRelease

\* The port allocator: calls overlap freely and the host changes at any moment.
Spec == Init /\ [][Next]_vars

\* The one caller when calls do not overlap: a call is made when none is in
\* progress, and it is this caller's.
Caller == "t1"
ByCaller == \A t \in Tasks \ {Caller} : task'[t] = task[t]

NextSeq ==
    \/ Quiet /\ FindAvailablePort /\ ByCaller
    \/ Quiet /\ FindMultipleAvailablePorts /\ ByCaller
    \/ Quiet /\ ReservePort /\ ByCaller
    \/ Quiet /\ ReserveSystemPort /\ ByCaller
    \/ Quiet /\ ReleasePort /\ ByCaller
    \/ Quiet /\ AllocatePortsForApp /\ ByCaller
    \/ Quiet /\ SetPortRange /\ ByCaller
    \/ ScanListen
    \/ ScanClose
    \/ ReserveListen
    \/ ReserveClose
    \/ ReserveSave
    \/ Return
    \/ Quiet /\ OsBind
    \/ Quiet /\ OsRelease

\* The port allocator, one call at a time, the host changing between calls only.
SpecSeq == Init /\ [][NextSeq]_vars

NextOwner ==
    \/ Quiet /\ ReservePortFor
    \/ Quiet /\ AllocatePortsForApp
    \/ Quiet /\ ReleasePort
    \/ Quiet /\ ReleaseAppPorts
    \/ Quiet /\ DeallocatePortsForApp
    \/ ScanListen
    \/ ScanClose
    \/ ReserveListen
    \/ ReserveClose
    \/ ReserveSave
    \/ Return

\* Ports reserved for owners and released by owner, one call at a time.
SpecOwner == Init /\ [][NextOwner]_vars

NextInstall ==
    \/ Quiet /\ \E pkg \in Packages : CallInstall(Caller, pkg)
    \/ Quiet /\ \E app \in AppIds : CallUninstall(Caller, app)
    \/ Quiet /\ CallReserve(Caller, WebScanStart, sanitizeAppName(<<"B">>))
    \/ InstallCheckExists
    \/ InstallEnsureDir
    \/ ExtractPackage
    \/ ReadInstallConfig
    \/ ScanListen
    \/ ScanClose
    \/ ComposerExists
    \/ RunComposerInstall
    \/ NpmExists
    \/ RunNpmInstall
    \/ CreateDatabase
    \/ CreateDbUser
    \/ CreateEnvFile
    \/ GenerateAppKey
    \/ RunMigrations
    \/ RunSeeders
    \/ BuildAssets
    \/ ConfigureWebServer
    \/ SaveAppConfig
    \/ CatchExists
    \/ CatchRemove
    \/ UninstallVhostExists
    \/ UninstallVhostRemove
    \/ DropDatabase
    \/ UninstallDirExists
    \/ UninstallDirRemove
    \/ ReserveListen
    \/ ReserveClose
    \/ ReserveSave
    \/ Return

\* The installation coordinator beside the port allocator: one call at a time,
\* on a host whose other processes keep the ports they hold.
SpecInstall == Init /\ [][NextInstall]_vars

\* Each caller installs an application of its own.
PackageOf(t) == IF t = Caller THEN <<"A", "!">> ELSE <<"B">>

InstallOwnPackage ==
    \E t \in Tasks, pkg \in Packages :
        /\ pkg.name = PackageOf(t)
        /\ installs < MaxParInstalls
        /\ CallInstall(t, pkg)

NextInstallPar ==
    \/ InstallOwnPackage
    \/ InstallCheckExists
    \/ InstallEnsureDir
    \/ ExtractPackage
    \/ ReadInstallConfig
    \/ ScanListen
    \/ ScanClose
    \/ ComposerExists
    \/ RunComposerInstall
    \/ NpmExists
    \/ RunNpmInstall
    \/ CreateDatabase
    \/ CreateDbUser
    \/ CreateEnvFile
    \/ GenerateAppKey
    \/ RunMigrations
    \/ RunSeeders
    \/ BuildAssets
    \/ ConfigureWebServer
    \/ SaveAppConfig
    \/ CatchExists
    \/ CatchRemove
    \/ Return

\* Packages of one application with every installation configuration and
\* every set of manifest files.
StepBundles ==
    {[cfg |-> c, files |-> {"install-config.json"} \cup f] :
        c \in [databaseRequired : BOOLEAN, migrations : BOOLEAN,
               seeders : BOOLEAN, frontendBuild : BOOLEAN],
        f \in SUBSET {"composer.json", "package.json"}}
StepPackages == {[name |-> <<"B">>, cfg |-> b.cfg, files |-> b.files] : b \in StepBundles}

InstallStepPackage ==
    \E pkg \in StepPackages :
        /\ installs < MaxStepInstalls
        /\ CallInstall(Caller, pkg)

NextSteps ==
    \/ Quiet /\ InstallStepPackage
    \/ InstallCheckExists
    \/ InstallEnsureDir
    \/ ExtractPackage
    \/ ReadInstallConfig
    \/ ScanListen
    \/ ScanClose
    \/ ComposerExists
    \/ RunComposerInstall
    \/ NpmExists
    \/ RunNpmInstall
    \/ CreateDatabase
    \/ CreateDbUser
    \/ CreateEnvFile
    \/ GenerateAppKey
    \/ RunMigrations
    \/ RunSeeders
    \/ BuildAssets
    \/ ConfigureWebServer
    \/ SaveAppConfig
    \/ CatchExists
    \/ CatchRemove
    \/ Return

\* No port of the host is held by another process.
InitInstallPar == Init /\ osBound = {}

\* The installation coordinator, the installs of two applications overlapping
\* freely.
SpecInstallPar == InitInstallPar /\ [][NextInstallPar]_vars

\* The installation coordinator installing packages of every configuration.
SpecSteps == InitInstallPar /\ [][NextSteps]_vars

\* The host as installPackage finds it: other processes hold any of the ports
\* of the web range, and none or all of the ports below it.
InitHost ==
    /\ reservedPorts = {}
    /\ defaultRangeStart = DefaultRangeStart
    /\ defaultRangeEnd = DefaultRangeEnd
    /\ globalFile = <<>>
    /\ osBound \in SUBSET ModelPorts
    /\ hostEvents = 0
    /\ lowBound \in BOOLEAN
    /\ appsDir = [a \in AppIds |-> NoDir]
    /\ installedApps = [a \in AppIds |-> NoApp]
    /\ databases = {}
    /\ vhosts = {}
    /\ task = [t \in Tasks |-> IdleTask]
    /\ calls = 0
    /\ installs = 0
    /\ heldPorts = {}
    /\ heldBy = {}
    /\ platform = "linux"
    /\ services = [n \in ServiceNames |-> NoHandle]
    /\ procs = {}
    /\ scm = [n \in ServiceNames |-> "absent"]
    /\ nextPid = 1
    /\ svcCalls = 0
    /\ catalog = ServiceNames
    /\ appsConfig = {}
    /\ appsFile = {}

NextHost ==
    \/ /\ Quiet
       /\ installs < MaxStepInstalls
       /\ \E pkg \in Packages : pkg.cfg.databaseRequired /\ CallInstall(Caller, pkg)
    \/ InstallCheckExists
    \/ InstallEnsureDir
    \/ ExtractPackage
    \/ ReadInstallConfig
    \/ ScanListen
    \/ ScanClose
    \/ ComposerExists
    \/ RunComposerInstall
    \/ NpmExists
    \/ RunNpmInstall
    \/ CreateDatabase
    \/ CreateDbUser
    \/ CreateEnvFile
    \/ GenerateAppKey
    \/ RunMigrations
    \/ RunSeeders
    \/ BuildAssets
    \/ ConfigureWebServer
    \/ SaveAppConfig
    \/ CatchExists
    \/ CatchRemove
    \/ Return

\* The installation coordinator installing packages that need a database, on
\* hosts whose ports are held in every such way.
SpecHost == InitHost /\ [][NextHost]_vars

NextRestart ==
    \/ Quiet /\ \E pkg \in Packages : pkg.name = <<"B">> /\ CallInstall(Caller, pkg)
    \/ Quiet /\ CallUninstall(Caller, sanitizeAppName(<<"B">>))
    \/ Quiet /\ CallReserve(Caller, WebScanStart, <<>>)
    \/ Quiet /\ CallFind(Caller, WebScanStart, WebScanStart)
    \/ Quiet /\ Restart
    \/ InstallCheckExists
    \/ InstallEnsureDir
    \/ ExtractPackage
    \/ ReadInstallConfig
    \/ ScanListen
    \/ ScanClose
    \/ ComposerExists
    \/ RunComposerInstall
    \/ NpmExists
    \/ RunNpmInstall
    \/ CreateDatabase
    \/ CreateDbUser
    \/ CreateEnvFile
    \/ GenerateAppKey
    \/ RunMigrations
    \/ RunSeeders
    \/ BuildAssets
    \/ ConfigureWebServer
    \/ SaveAppConfig
    \/ CatchExists
    \/ CatchRemove
    \/ UninstallVhostExists
    \/ UninstallVhostRemove
    \/ DropDatabase
    \/ UninstallDirExists
    \/ UninstallDirRemove
    \/ ReserveListen
    \/ ReserveClose
    \/ ReserveSave
    \/ Return

\* The application over several runs: installs, uninstalls, reservations and
\* finds, one call at a time, and restarts between calls.
SpecRestart == InitInstallPar /\ [][NextRestart]_vars

\* Both callers install the same application; a call is made while the other
\* caller's call, if it has made one, has not returned its result.
NextSame ==
    \/ /\ \A u \in Tasks : task[u].pc \notin {"done", "failed"}
       /\ installs < MaxParInstalls
       /\ \E t \in Tasks, pkg \in Packages : pkg.name = <<"B">> /\ CallInstall(t, pkg)
    \/ InstallCheckExists
    \/ InstallEnsureDir
    \/ ExtractPackage
    \/ ReadInstallConfig
    \/ ScanListen
    \/ ScanClose
    \/ ComposerExists
    \/ RunComposerInstall
    \/ NpmExists
    \/ RunNpmInstall
    \/ CreateDatabase
    \/ CreateDbUser
    \/ CreateEnvFile
    \/ GenerateAppKey
    \/ RunMigrations
    \/ RunSeeders
    \/ BuildAssets
    \/ ConfigureWebServer
    \/ SaveAppConfig
    \/ CatchExists
    \/ CatchRemove
    \/ Return

\* The installation coordinator, two installs of one application overlapping.
SpecSame == InitInstallPar /\ [][NextSame]_vars

\* A call is made while the other caller's call, if it has made one, has not
\* returned its result.
NextUpdate ==
    \/ (\A u \in Tasks : task[u].pc \notin {"done", "failed"}) /\ UpdateAppConfig
    \/ SaveAppsConfig
    \/ Return

\* The configuration store, updates of the applications' records overlapping.
SpecUpdate == InitInstallPar /\ [][NextUpdate]_vars

\* Display names: every name of up to MaxNameLen characters over an upper case
\* letter, a lower case letter, a digit, a space, an underscore and a hyphen,
\* and the name "My Test App".
Alphabet == {"A", "b", "1", " ", "_", "-"}
ExampleName == <<"M", "y", " ", "T", "e", "s", "t", " ", "A", "p", "p">>
Names == UNION {[1..n -> Alphabet] : n \in 0..MaxNameLen} \cup {ExampleName}

\* The caller holds a display name.
InitNames ==
    /\ reservedPorts = {}
    /\ defaultRangeStart = DefaultRangeStart
    /\ defaultRangeEnd = DefaultRangeEnd
    /\ globalFile = <<>>
    /\ osBound = {}
    /\ hostEvents = 0
    /\ lowBound = FALSE
    /\ appsDir = [a \in AppIds |-> NoDir]
    /\ installedApps = [a \in AppIds |-> NoApp]
    /\ databases = {}
    /\ vhosts = {}
    /\ \E n \in Names :
           task = [t \in Tasks |->
                      IF t = Caller THEN [IdleTask EXCEPT !.pkg.name = n]
                      ELSE IdleTask]
    /\ calls = 0
    /\ installs = 0
    /\ heldPorts = {}
    /\ heldBy = {}
    /\ platform = "linux"
    /\ services = [n \in ServiceNames |-> NoHandle]
    /\ procs = {}
    /\ scm = [n \in ServiceNames |-> "absent"]
    /\ nextPid = 1
    /\ svcCalls = 0
    /\ catalog = ServiceNames
    /\ appsConfig = {}
    /\ appsFile = {}

\* sanitizeAppName(name) of the display name.
SanitizeName ==
    /\ task[Caller].op = "none"
    /\ Step(Caller, [task[Caller] EXCEPT !.op = "sanitize",
                        !.app = sanitizeAppName(task[Caller].pkg.name)])
    /\ UNCHANGED <<portState, hostState, cfgState, svcState, pkgState, calls, installs,
                   heldPorts, heldBy>>

\* sanitizeAppName of the identifier it returned.
SanitizeAgain ==
    /\ task[Caller].op = "sanitize"
    /\ Step(Caller, [task[Caller] EXCEPT !.op = "sanitizeAgain",
                        !.result = sanitizeAppName(task[Caller].app)])
    /\ UNCHANGED <<portState, hostState, cfgState, svcState, pkgState, calls, installs,
                   heldPorts, heldBy>>

NextNames ==
    \/ SanitizeName
    \/ SanitizeAgain

\* sanitizeAppName applied to every display name.
SpecNames == InitNames /\ [][NextNames]_vars

\* The service manager starts on either platform; on win32 the services may
\* have been created by an earlier run.
InitSvc ==
    /\ reservedPorts = {}
    /\ defaultRangeStart = DefaultRangeStart
    /\ defaultRangeEnd = DefaultRangeEnd
    /\ globalFile = <<>>
    /\ osBound = {}
    /\ hostEvents = 0
    /\ lowBound = FALSE
    /\ appsDir = [a \in AppIds |-> NoDir]
    /\ installedApps = [a \in AppIds |-> NoApp]
    /\ databases = {}
    /\ vhosts = {}
    /\ task = [t \in Tasks |-> IdleTask]
    /\ calls = 0
    /\ installs = 0
    /\ heldPorts = {}
    /\ heldBy = {}
    /\ platform \in Platforms
    /\ services = [n \in ServiceNames |-> NoHandle]
    /\ procs = {}
    /\ scm \in {[n \in ServiceNames |-> s] :
                    s \in IF platform = "win32" THEN {"absent", "stopped"}
                          ELSE {"absent"}}
    /\ nextPid = 1
    /\ svcCalls = 0
    /\ catalog = ServiceNames
    /\ appsConfig = {}
    /\ appsFile = {}

NextSvc ==
    \/ Quiet /\ StartService
    \/ Quiet /\ StopService
    \/ Quiet /\ RestartService
    \/ Quiet /\ RemoveService
    \/ Quiet /\ GetServiceStatus
    \/ RestartWait
    \/ WinScQuery
    \/ WinScStart
    \/ WinScCreate
    \/ WinScCreateStart
    \/ WinScStop
    \/ WinScDelete
    \/ UnixPkill
    \/ Return

\* The service manager, one call at a time.
SpecSvc == InitSvc /\ [][NextSvc]_vars

NextSvcPar ==
    \/ StartService
    \/ StopService
    \/ RestartService
    \/ RemoveService
    \/ GetServiceStatus
    \/ RestartWait
    \/ WinScQuery
    \/ WinScStart
    \/ WinScCreate
    \/ WinScCreateStart
    \/ WinScStop
    \/ WinScDelete
    \/ UnixPkill
    \/ Return

\* The service manager, calls overlapping freely.
SpecSvcPar == InitSvc /\ [][NextSvcPar]_vars

\* ---------------------------------------------------------------- properties

Range(s) == {s[i] : i \in 1..Len(s)}
Finished(r) == r.pc \in {"done", "failed"}

\* Both callers ran allocatePortsForApp for one port each, over a range of
\* exactly two ports, both free from the start and never touched by the host,
\* and nothing else was called.
TwoAllocationsOverTwoFreePorts ==
    /\ defaultRangeStart = DefaultRangeStart
    /\ defaultRangeEnd = DefaultRangeStart + 1
    /\ osBound = {} /\ hostEvents = 0
    /\ calls = 2
    /\ \A t \in Tasks :
        task[t].op = "allocate" /\ task[t].count = 1 /\ Finished(task[t])

\* C1: two concurrent allocatePortsForApp calls for one port each, over a range
\* with exactly two free ports, both succeed and return different ports, in
\* every interleaving.
C1_BothSucceedDistinct ==
    TwoAllocationsOverTwoFreePorts =>
        /\ \A t \in Tasks : task[t].pc = "done"
        /\ task["t1"].result # task["t2"].result

\* C3: allocatePortsForApp is all-or-nothing: a call that failed has left none
\* of the ports it reserved on the way in the in-memory set or in the durable
\* list.
C3_FailedAllocationLeavesNothing ==
    \A t \in Tasks :
        (task[t].op = "allocate" /\ task[t].pc = "failed") =>
            \A i \in 1..(task[t].idx - 1) :
                /\ task[t].ports[i] \notin reservedPorts
                /\ task[t].ports[i] \notin Range(globalFile)

\* C9: a port returned by findAvailablePort(a, b) lies in a..b (the default
\* bound where the argument is omitted), is not a system reserved port and was
\* not in reservedPorts when the call was made, whatever reserve and release
\* calls came before.
C9_FoundPortIsEligible ==
    \A t \in Tasks :
        (task[t].op = "find" /\ task[t].pc = "done") =>
            LET p == task[t].result[1]
                a == OrDefault(task[t].argA, defaultRangeStart)
                b == OrDefault(task[t].argB, defaultRangeEnd)
            IN /\ Len(task[t].result) = 1
               /\ a <= p /\ p <= b
               /\ p \notin SystemReservedPorts
               /\ p \notin task[t].snap

\* A find that had to pass over a reserved port returned the one behind it.
C9_Witness ==
    \E t \in Tasks :
        /\ task[t].op = "find" /\ task[t].pc = "done"
        /\ task[t].argA = DefaultRangeStart
        /\ DefaultRangeStart \in task[t].snap
        /\ task[t].result = <<DefaultRangeStart + 1>>

\* C10: while port p is reserved (reservePort(p) succeeded and releasePort(p)
\* has not been called since), findAvailablePort(p, p) fails with "no available
\* ports"; it never returns p.
C10_ReservedPortStaysUnavailable ==
    \A t \in Tasks :
        (/\ task[t].op = "find" /\ Finished(task[t])
         /\ task[t].argA # Null /\ task[t].argA = task[t].argB
         /\ task[t].argA \in heldPorts) =>
            task[t].pc = "failed" /\ task[t].err = "NoPortsAvailable"

\* After reservePort(p) and one more call, findAvailablePort(p, p) failed although
\* no process of the host holds p.
C10_Witness ==
    \E t \in Tasks :
        /\ task[t].op = "find" /\ task[t].pc = "failed"
        /\ task[t].argA # Null /\ task[t].argA = task[t].argB
        /\ task[t].argA \in heldPorts
        /\ task[t].argA \notin osBound
        /\ calls = 3

\* ------------------------------------------------ properties of installPackage

InstallTask(t) == task[t].op = "install"
PortsOfApp(a) == {installedApps[a].port, installedApps[a].dbPort}

\* C2: two installs with no uninstall in between (both records are present)
\* were handed pairwise different web and database ports.
C2_InstallsGetDifferentPorts ==
    \A a \in AppIds, b \in AppIds :
        (a # b /\ MapHas(installedApps, a) /\ MapHas(installedApps, b)) =>
            PortsOfApp(a) \cap PortsOfApp(b) = {}

StepsFromExtraction ==
    {"extract", "readcfg", "ports", "composer", "npm", "database", "env", "keygen",
     "migrate", "seed", "build", "vhost", "persist"}

\* C4: when installPackage has failed at a step from the extraction of the
\* archive to the write of app-config.json, the install directory does not
\* exist at the time the call returns.
C4_FailedInstallRemovesDirectory ==
    \A t \in Tasks :
        (InstallTask(t) /\ task[t].pc = "failed"
         /\ task[t].failedAt \in StepsFromExtraction) =>
            ~DirExists(appsDir, task[t].app)

\* An install failed at its last write, after every file had been written.
C4_Witness ==
    \E t \in Tasks :
        /\ InstallTask(t) /\ task[t].pc = "failed"
        /\ task[t].failedAt = "persist"
        /\ task[t].cfg.databaseRequired

\* C5: when an install that created its database has failed at a later step,
\* the database is gone at the time the call returns.
C5_FailedInstallDropsDatabase ==
    \A t \in Tasks :
        (InstallTask(t) /\ task[t].pc = "failed" /\ task[t].dbCreated
         /\ "database" \in Range(task[t].steps)) =>
            task[t].app \notin databases

\* C6: when an install has failed after its ports were chosen, neither of them
\* is in reservedPorts or in the durable list at the time the call returns.
C6_FailedInstallHoldsNoPorts ==
    \A t \in Tasks :
        (InstallTask(t) /\ task[t].pc = "failed" /\ "ports" \in Range(task[t].steps)) =>
            \A p \in {task[t].appPort, task[t].dbPort} :
                p \notin reservedPorts /\ p \notin Range(globalFile)

\* The steps an install of package r.pkg has to complete.
RequiredSteps(r) ==
    {"extract", "readcfg", "ports", "env", "keygen", "vhost", "persist"}
    \cup (IF "composer.json" \in r.pkg.files THEN {"composer"} ELSE {})
    \cup (IF r.pkg.cfg.frontendBuild /\ "package.json" \in r.pkg.files
          THEN {"npm"} ELSE {})
    \cup (IF r.pkg.cfg.databaseRequired THEN {"database"} ELSE {})
    \cup (IF r.pkg.cfg.migrations THEN {"migrate"} ELSE {})
    \cup (IF r.pkg.cfg.seeders THEN {"seed"} ELSE {})
    \cup (IF r.pkg.cfg.frontendBuild THEN {"build"} ELSE {})

\* The record of application a is written in this step.
RecordWritten(a) ==
    \/ installedApps'[a] # installedApps[a] /\ MapHas(installedApps', a)
    \/ appsDir'[a].record # appsDir[a].record /\ appsDir'[a].record.installed

\* An install of application a returns success in this step, all its steps done.
InstallCompletes(a) ==
    \E t \in Tasks :
        /\ InstallTask(t) /\ task[t].app = a
        /\ task[t].pc = "persist" /\ task'[t].pc = "done"
        /\ RequiredSteps(task'[t]) \subseteq Range(task'[t].steps)

\* A record exists for the application of an install that failed.
RecordAfterFailure ==
    \E t \in Tasks :
        /\ InstallTask(t) /\ task[t].pc = "failed"
        /\ \/ MapHas(installedApps, task[t].app)
           \/ appsDir[task[t].app].record.installed

C8_AlreadyInstalledRunsNothing ==
    \A t \in Tasks :
        (InstallTask(t) /\ (task[t].sawDir \/ task[t].sawRecord)) =>
            /\ task[t].pc \in {"catch", "remove", "failed"}
            /\ task[t].err = "AlreadyInstalled"
            /\ task[t].steps = <<>>


\* ------------------------------------------- properties of reserve and release

\* C11: reservePort(p) of a port that is system reserved, already in
\* reservedPorts or bound by another process fails with "port is not
\* available", and no step of a reservePort call that fails changes
\* reservedPorts or the durable list.
C11_ReserveRevalidates ==
    [][\A t \in Tasks :
        /\ (Idle(t) /\ task'[t].op = "reserve"
            /\ task'[t].argA \in SystemReservedPorts \cup reservedPorts) =>
                task'[t].pc = "failed"
        /\ (task'[t].op = "reserve" /\ Finished(task'[t])
            /\ task'[t].argA \in osBound') =>
                task'[t].pc = "failed"
        /\ (task'[t].op = "reserve" /\ task'[t].pc = "failed") =>
                task'[t].err = "PortUnavailable"
        /\ (task'[t].op = "reserve" /\ task'[t].pc \in {"res_listen", "failed"}) =>
                UNCHANGED <<reservedPorts, globalFile>>]_vars

\* A reservePort of a port another process holds failed while another port
\* was reserved, and that reservation is still there.
C11_Witness ==
    \E t \in Tasks :
        /\ task[t].op = "reserve" /\ task[t].pc = "failed"
        /\ task[t].argA \in osBound
        /\ reservedPorts # {} /\ globalFile # <<>>

\* C12: releasePort(p) never fails, whether p is reserved or not; after it p is
\* not in reservedPorts; and a releasePort of a port that is not in
\* reservedPorts (so also the second of two releases) changes neither
\* reservedPorts nor the durable list.
C12_ReleaseIdempotent ==
    [][\A t \in Tasks :
        (Idle(t) /\ task'[t].op = "release") =>
            /\ task'[t].pc = "done"
            /\ task'[t].argA \notin reservedPorts'
            /\ task'[t].argA \notin reservedPorts =>
                   UNCHANGED <<reservedPorts, globalFile>>]_vars

\* After a reserve and one more call, a release returned; its port is not in
\* reservedPorts and the durable list still has its entry.
C12_Witness ==
    \E t \in Tasks :
        /\ task[t].op = "release" /\ task[t].pc = "done"
        /\ task[t].argA \notin reservedPorts
        /\ globalFile # <<>>
        /\ calls = 3

\* C13: after releaseAppPorts(owner) or deallocatePortsForApp(owner) has
\* returned, no port reserved with that owner (by reservePort(p, owner) or by
\* allocatePortsForApp(owner, ...)) is left in reservedPorts or in the durable
\* list.
C13_ReleaseAllReleasesOwnersPorts ==
    \A t \in Tasks :
        (task[t].op \in {"releaseAll", "deallocate"} /\ task[t].pc = "done") =>
            \A h \in heldBy :
                h[2] = task[t].app =>
                    h[1] \notin reservedPorts /\ h[1] \notin Range(globalFile)

\* ------------------------------------------------ properties of uninstallPackage

\* C14: when uninstallPackage(app) has returned success (the application had
\* been installed), no port is reserved for that owner, installedApps has no
\* entry for it, and its virtual host file, its database and its install
\* directory are gone.
C14_UninstallRemovesEverything ==
    \A t \in Tasks :
        (task[t].op = "uninstall" /\ task[t].pc = "done") =>
            /\ \A h \in heldBy : h[2] # task[t].app
            /\ ~installedApps[task[t].app].installed
            /\ task[t].app \notin vhosts
            /\ task[t].app \notin databases
            /\ ~appsDir[task[t].app].exists

\* C15: uninstallPackage called for an application id that has no installation
\* record returns the not-installed error at once, and the call changes
\* neither the package state (records, directories, databases, virtual
\* hosts) nor the port state.
C15_UninstallUnknownChangesNothing ==
    [][\A t \in Tasks :
        (/\ Idle(t)
         /\ task'[t].op = "uninstall"
         /\ ~installedApps[task'[t].app].installed) =>
            /\ task'[t].pc = "failed"
            /\ task'[t].err = "NotInstalled"
            /\ UNCHANGED <<pkgState, portState, heldPorts, heldBy>>]_vars

C15_Witness ==
    \E t \in Tasks :
        /\ task[t].op = "uninstall"
        /\ task[t].pc = "failed"
        /\ task[t].err = "NotInstalled"
        /\ ~installedApps[task[t].app].installed
        /\ task[t].app \in databases

\* ------------------------------------------- properties of ServiceManager

ServiceOps == {"start", "stop", "restart"}
InProgress(r) == r.pc \notin {"idle", "done", "failed"}

\* C16: startService on a service that was running when it was called
\* returns success with the kept handle and the service's processes the same
\* as before the call (no second process launched), on either platform.
C16_StartRunningKeepsProcess ==
    \A t \in Tasks :
        (task[t].op = "start" /\ task[t].pc = "done" /\ task[t].wasRunning) =>
            /\ services[task[t].svc] = task[t].before
            /\ Pids(task[t].svc) = task[t].pidsBefore

\* C17: when restartService has returned success the service's status is
\* running, and the process of the service is another one than before the
\* restart.
C17_RestartGivesRunningNewProcess ==
    \A t \in Tasks :
        (task[t].op = "restart" /\ task[t].pc = "done") =>
            /\ StatusRunning(task[t].svc)
            /\ IF platform = "win32"
               THEN Pids(task[t].svc) # task[t].pidsBefore
               ELSE services[task[t].svc] # task[t].before

\* C18: stopService on a service of the catalog that was not running when it
\* was called returns success, not an error.
C18_StopStoppedSucceeds ==
    \A t \in Tasks :
        (/\ task[t].op = "stop"
         /\ task[t].svc \in ServiceNames
         /\ ~task[t].wasRunning
         /\ Finished(task[t])) => task[t].pc = "done"

\* C19: startService returns success only if the service's process is running
\* when it returns; a launch that failed is never reported as a success.
C19_StartSuccessMeansRunning ==
    \A t \in Tasks :
        (task[t].op = "start" /\ task[t].pc = "done") =>
            StatusRunning(task[t].svc)

\* C20: for one service name start, stop and restart are serialized: no step
\* of an operation changes the service (its kept handle, its processes, its
\* state in the service control manager) while an operation on the same name
\* that was issued earlier is still in progress.
C20_SameNameSerialized ==
    [][\A t, u \in Tasks :
        (/\ t # u
         /\ task'[u] # task[u]
         /\ task'[u].op \in ServiceOps
         /\ task[t].op \in ServiceOps
         /\ InProgress(task[t])
         /\ task'[u].svc = task[t].svc
         /\ task[t].ticket < task'[u].ticket) =>
            /\ services'[task[t].svc] = services[task[t].svc]
            /\ scm'[task[t].svc] = scm[task[t].svc]
            /\ {q \in procs' : q[1] = task[t].svc} = {q \in procs : q[1] = task[t].svc}]_vars

\* The service runs on the host, whatever the catalog says.
HostRunning(n) == IF platform = "win32" THEN scm[n] = "running" ELSE Pids(n) # {}

\* C21: removeService stops the service before it removes the descriptor:
\* when it has returned success the name is not in the catalog and no process
\* of the service is running.
C21_RemovedServiceIsStopped ==
    \A t \in Tasks :
        (task[t].op = "remove" /\ task[t].pc = "done") =>
            /\ task[t].svc \notin catalog
            /\ ~HostRunning(task[t].svc)

\* C22: the rollback of a failed install (the steps of its catch block)
\* touches only the failing install's own application: the directory, the
\* record, the database and the virtual host of every other application, and
\* the reserved ports, are the same after each of its steps, so that an
\* install of another application running beside it can still complete.
C22_RollbackTouchesOwnResourcesOnly ==
    [][\A t \in Tasks :
        (/\ task[t].op = "install"
         /\ task[t].pc \in {"catch", "remove"}
         /\ task'[t] # task[t]) =>
            /\ \A a \in AppIds \ {task[t].app} :
                   /\ appsDir'[a] = appsDir[a]
                   /\ installedApps'[a] = installedApps[a]
                   /\ (a \in databases') = (a \in databases)
                   /\ (a \in vhosts') = (a \in vhosts)
            /\ UNCHANGED <<reservedPorts, globalFile>>]_vars

C22_Witness ==
    \E t \in Tasks, u \in Tasks :
        /\ task[t].op = "install" /\ task[t].pc = "failed" /\ task[t].overlapped
        /\ ~appsDir[task[t].app].exists
        /\ task[u].op = "install" /\ task[u].pc = "done"
        /\ task[u].app # task[t].app
        /\ appsDir[task[u].app].exists
        /\ installedApps[task[u].app].installed
        /\ task[u].app \in databases

\* ------------------------------------------------ properties of the scans

\* A port is available: not a system reserved port, not reserved, and bound by
\* no process of the host.
Available(p) ==
    /\ p \notin SystemReservedPorts
    /\ p \notin reservedPorts
    /\ ~HostHolds(p)

\* C23: findAvailablePort(a, b) with both bounds given returns the smallest
\* available port of a..b.
C23_FindReturnsSmallestAvailable ==
    \A t \in Tasks :
        (/\ task[t].op = "find" /\ task[t].pc = "done"
         /\ task[t].argA # Null /\ task[t].argB # Null) =>
            LET p == task[t].result[1] IN
            /\ p \in task[t].argA .. task[t].argB
            /\ Available(p)
            /\ \A q \in task[t].argA .. (p - 1) : ~Available(q)

C23_Witness ==
    \E t \in Tasks :
        /\ task[t].op = "find" /\ task[t].pc = "done"
        /\ task[t].argA = DefaultRangeStart
        /\ task[t].argB = DefaultRangeStart + 1
        /\ DefaultRangeStart \in osBound
        /\ task[t].result = <<DefaultRangeStart + 1>>

\* C24: findAvailablePort fails, with the no-available-ports error, exactly
\* when no port of its range is available, and no step of it, failed or
\* successful, changes the reserved ports in memory or on disk.
C24_FindFailsIffNoneAvailable ==
    [][\A t \in Tasks :
        (task'[t].op = "find" /\ task'[t] # task[t]) =>
            /\ UNCHANGED <<reservedPorts, globalFile>>
            /\ Finished(task'[t]) =>
                   /\ (task'[t].pc = "failed") =
                          (\A q \in task'[t].lo .. task'[t].hi : ~Available(q))
                   /\ task'[t].pc = "failed" => task'[t].err = "NoPortsAvailable"]_vars

C24_Witness ==
    \E t \in Tasks :
        /\ task[t].op = "find" /\ task[t].pc = "failed"
        /\ task[t].err = "NoPortsAvailable"
        /\ task[t].lo < task[t].hi
        /\ reservedPorts # {}
        /\ osBound # {}

\* C25: findMultipleAvailablePorts(n, a, b) returns the n smallest available
\* ports of its range, in ascending order, when the range has n available
\* ports, fails otherwise, and no step of it changes the reserved ports.
C25_FindMultipleReturnsNSmallest ==
    [][\A t \in Tasks :
        (task'[t].op = "findMultiple" /\ task'[t] # task[t]) =>
            /\ UNCHANGED <<reservedPorts, globalFile>>
            /\ Finished(task'[t]) =>
                   LET avail == {q \in task'[t].lo .. task'[t].hi : Available(q)}
                       res == task'[t].result
                   IN IF Cardinality(avail) >= task'[t].count
                      THEN /\ task'[t].pc = "done"
                           /\ Len(res) = task'[t].count
                           /\ \A i \in 1..(Len(res) - 1) : res[i] < res[i + 1]
                           /\ Range(res) \subseteq avail
                           /\ \A q \in avail \ Range(res) :
                                  \A i \in 1..Len(res) : res[i] < q
                      ELSE task'[t].pc = "failed"]_vars

C25_Witness ==
    \E t \in Tasks :
        /\ task[t].op = "findMultiple" /\ task[t].pc = "done"
        /\ task[t].count = 2
        /\ task[t].argB = Null
        /\ DefaultRangeStart \in osBound
        /\ DefaultRangeStart + 1 \in reservedPorts
        /\ task[t].result = <<DefaultRangeStart + 2, DefaultRangeStart + 3>>

\* ----------------------------------------- properties of the install steps

\* The step was started by the install: it completed, or the install failed
\* in it.
Started(r, step) == step \in Range(r.steps) \/ r.failedAt = step

\* C26: an optional step of installPackage runs only when it is enabled and,
\* in an install that succeeds, whenever it is enabled: the database creation
\* with databaseRequired, the migrations with migrations, the seeders with
\* seeders, the asset build with frontendBuild; composer install runs only for
\* a package holding composer.json, npm install only for one holding
\* package.json.
C26_OptionalStepsFollowFlags ==
    \A t \in Tasks :
        InstallTask(t) =>
            LET r == task[t]
                c == r.pkg.cfg
            IN /\ Started(r, "database") => c.databaseRequired
               /\ Started(r, "migrate") => c.migrations
               /\ Started(r, "seed") => c.seeders
               /\ Started(r, "build") => c.frontendBuild
               /\ Started(r, "composer") => "composer.json" \in r.pkg.files
               /\ Started(r, "npm") => "package.json" \in r.pkg.files
               /\ r.pc = "done" =>
                      /\ c.databaseRequired => "database" \in Range(r.steps)
                      /\ c.migrations => "migrate" \in Range(r.steps)
                      /\ c.seeders => "seed" \in Range(r.steps)
                      /\ c.frontendBuild => "build" \in Range(r.steps)

\* An install with the database and the migrations on and the seeders off.
C26_Witness ==
    \E t \in Tasks :
        /\ InstallTask(t) /\ task[t].pc = "done"
        /\ task[t].pkg.cfg = [databaseRequired |-> TRUE, migrations |-> TRUE,
                              seeders |-> FALSE, frontendBuild |-> FALSE]
        /\ {"database", "migrate"} \subseteq Range(task[t].steps)
        /\ "seed" \notin Range(task[t].steps)

ExternalSteps == {"composer", "npm", "keygen", "migrate", "seed", "build"}

\* C27: an external process of installPackage either completes, and the
\* install goes on, or fails the install at that step; from then on the
\* install completes no further step and writes no record, and when it has
\* returned its error no persisted record of the application exists.
C27_FailedProcessStopsInstall ==
    [][\A t \in Tasks :
        (InstallTask(t) /\ task'[t] # task[t]) =>
            /\ task[t].pc \in ExternalSteps =>
                   \/ /\ task'[t].steps = Append(task[t].steps, task[t].pc)
                      /\ task'[t].failedAt = ""
                   \/ /\ task'[t].steps = task[t].steps
                      /\ task'[t].pc = "catch"
                      /\ task'[t].failedAt = task[t].pc
            /\ task[t].failedAt \in ExternalSteps =>
                   /\ task'[t].pc \in {"remove", "failed", "idle"}
                   /\ task'[t].pc # "idle" => task'[t].steps = task[t].steps
                   /\ installedApps' = installedApps
                   /\ ~appsDir'[task[t].app].record.installed
                   /\ task'[t].pc = "failed" =>
                          /\ task'[t].err # ""
                          /\ ~appsDir'[task[t].app].exists]_vars

\* The migrations exited with a code other than 0 after the database had been
\* created, and the install has returned its error.
C27_Witness ==
    \E t \in Tasks :
        /\ InstallTask(t) /\ task[t].pc = "failed"
        /\ task[t].failedAt = "migrate" /\ task[t].err = "ExitCode"
        /\ "database" \in Range(task[t].steps)

\* ------------------------------------------- properties of sanitizeAppName

\* C28: the identifier sanitizeAppName derives from a display name holds only
\* lower case letters, digits and underscores, never two underscores in a
\* row, and is its own identifier; "My Test App" gives "my_test_app".
C28_SanitizedNameIsCanonical ==
    \A t \in Tasks :
        LET id == task[t].app IN
        /\ task[t].op \in {"sanitize", "sanitizeAgain"} =>
               /\ \A i \in 1..Len(id) :
                      \/ id[i] = "_"
                      \/ id[i] \in Digits
                      \/ \E k \in 1..Len(Lower) : Lower[k] = id[i]
               /\ \A i \in 1..(Len(id) - 1) : ~(id[i] = "_" /\ id[i + 1] = "_")
               /\ task[t].pkg.name = ExampleName =>
                      id = <<"m", "y", "_", "t", "e", "s", "t", "_", "a", "p", "p">>
        /\ task[t].op = "sanitizeAgain" => task[t].result = id

\* A name ending in a run of two characters that are not letters or digits.
C28_Witness ==
    \E t \in Tasks :
        /\ task[t].op = "sanitizeAgain"
        /\ task[t].pkg.name = <<"A", " ", "-">>
        /\ task[t].app = <<"a">>
        /\ task[t].result = <<"a">>

\* ------------------------------------ properties of installPackage, again

\* C29: when installPackage has failed because the install directory of the
\* application existed already, that directory, with the files and the record
\* of the installation in it, exists after the call as it did before.
C29_AlreadyInstalledLeavesInstallation ==
    \A t \in Tasks :
        (/\ InstallTask(t) /\ task[t].pc = "failed"
         /\ task[t].err = "AlreadyInstalled") =>
            DirExists(appsDir, task[t].app)

\* The steps of installPackage in the order the source runs them.
InstallOrder ==
    <<"extract", "readcfg", "ports", "composer", "npm", "database", "env",
      "keygen", "migrate", "seed", "build", "vhost", "persist">>

\* The order with the database and the environment file before the
\* dependencies.
DatabaseFirstOrder ==
    <<"extract", "readcfg", "ports", "database", "env", "composer", "npm",
      "keygen", "migrate", "seed", "build", "vhost", "persist">>

PlaceIn(order, step) == CHOOSE i \in 1..Len(order) : order[i] = step

\* The steps completed, one after the other, in the given order.
CompletedIn(order, steps) ==
    \A i \in 1..Len(steps), j \in 1..Len(steps) :
        i < j => PlaceIn(order, steps[i]) < PlaceIn(order, steps[j])

C32_DurableListEqualsReservedPorts ==
    \A t \in Tasks :
        (task[t].op \in {"reserve", "release"} /\ task[t].pc = "done") =>
            Range(globalFile) = reservedPorts

\* ------------------------------------------- properties of restartService

\* C34: restartService of a service of the catalog that was not running when
\* it was called returns success and leaves the service running.
C34_RestartFromStopped ==
    \A t \in Tasks :
        (/\ task[t].op = "restart"
         /\ task[t].svc \in catalog
         /\ ~task[t].wasRunning
         /\ Finished(task[t])) =>
            /\ task[t].pc = "done"
            /\ StatusRunning(task[t].svc)

\* C35: restartService starts the service only after its stop has returned
\* and its wait has passed, and a restart that leaves the service without a
\* running process (its start failed) has returned an error and has recorded
\* no handle.
C35_RestartOrderAndFailedStart ==
    [][\A t \in Tasks :
        (task'[t].op = "restart" /\ task'[t] # task[t]) =>
            /\ (nextPid' # nextPid \/ task'[t].pc = "w_query") =>
                   task[t].pc \in {"r_wait", "w_start", "w_create_start"}
            /\ task'[t].pc = "r_wait" =>
                   task[t].pc \in {"idle", "w_stop", "u_pkill"}
            /\ (/\ Finished(task'[t])
                /\ task[t].pc \in {"r_wait", "w_query", "w_start", "w_create",
                                    "w_create_start"}
                /\ {q \in procs' : q[1] = task'[t].svc} = {}) =>
                   /\ task'[t].pc = "failed"
                   /\ services'[task'[t].svc] = NoHandle]_vars

\* C38: off win32, every process startService spawned and stopService has not
\* stopped is the one kept in services under its name: a service has at most
\* one such process, and its handle is never replaced while it lives.
C38_LiveProcessesAreKept ==
    platform # "win32" =>
        \A n \in ServiceNames : Pids(n) \subseteq {services[n]}

\* ------------------------------------ properties of uninstallPackage, again

\* C39: an uninstallPackage that fails after it has started (the drop of the
\* database raised an error) returns that error and leaves the entry of
\* installedApps in place, as the retry needs it.
C39_FailedUninstallKeepsRecord ==
    \A t \in Tasks :
        (/\ task[t].op = "uninstall" /\ task[t].pc = "failed"
         /\ task[t].err # "NotInstalled") =>
            /\ task[t].err = "DropDatabaseFailed"
            /\ MapHas(installedApps, task[t].app)

\* The drop of the database failed after the virtual host file had been
\* removed; the directory and the record are still there.
C39_Witness ==
    \E t \in Tasks :
        /\ task[t].op = "uninstall" /\ task[t].pc = "failed"
        /\ task[t].err = "DropDatabaseFailed"
        /\ task[t].app \notin vhosts
        /\ task[t].app \in databases
        /\ DirExists(appsDir, task[t].app)
        /\ MapHas(installedApps, task[t].app)

\* ------------------------------------ properties of setupAppConfiguration

\* C31: the record of a successful install of a package that requires a
\* database has its web port in the default range and a database port other
\* than its web port, whatever ports other processes hold.
C31_RecordPortsInRangeAndDistinct ==
    \A t \in Tasks :
        (InstallTask(t) /\ task[t].pc = "done" /\ task[t].pkg.cfg.databaseRequired) =>
            LET rec == installedApps[task[t].app] IN
            /\ rec.installed
            /\ DefaultRangeStart <= rec.port /\ rec.port <= DefaultRangeEnd
            /\ rec.dbPort # rec.port

\* ------------------------------------------- properties of the restart

\* C33: a restart leaves every port that was reserved and not released in
\* reservedPorts, and findAvailablePort never returns such a port.
C33_ReservedPortsSurviveRestart ==
    [][/\ Restart => heldPorts \subseteq reservedPorts'
       /\ \A t \in Tasks :
            (task'[t].op = "find" /\ task'[t].pc = "done") =>
                task'[t].result[1] \notin heldPorts']_vars

\* C40: uninstallPackage of an application whose app-config.json is in its
\* install directory (it was installed in this run or in an earlier one) does
\* not report that the application is not installed.
C40_InstalledAppsKnownAfterRestart ==
    \A t \in Tasks :
        (task[t].op = "uninstall" /\ appsDir[task[t].app].record.installed) =>
            ~(task[t].pc = "failed" /\ task[t].err = "NotInstalled")

\* ------------------------------- properties of installs of one application

\* C37: of two installPackage calls for one application that overlapped, at
\* most one returns success, and the install directory and the record of the
\* one that did are there when both have returned.
C37_OverlappingInstallsOfOneApp ==
    \A t \in Tasks, u \in Tasks :
        (/\ t # u
         /\ InstallTask(t) /\ InstallTask(u)
         /\ task[t].app = task[u].app
         /\ Finished(task[t]) /\ Finished(task[u])
         /\ task[t].pc = "done") =>
            /\ task[u].pc = "failed"
            /\ DirExists(appsDir, task[t].app)
            /\ appsDir[task[t].app].record.installed
            /\ MapHas(installedApps, task[t].app)

\* ------------------------------------------- properties of updateAppConfig

\* C36: when two updateAppConfig calls on one application that overlapped
\* have both returned, the record in memory and the record in apps.json both
\* hold the field each call wrote (the later call's value where both wrote
\* the same field).
C36_OverlappingUpdatesBothKept ==
    \A t \in Tasks, u \in Tasks :
        (/\ t # u
         /\ task[t].op = "update" /\ task[u].op = "update"
         /\ task[t].app = task[u].app
         /\ task[t].pc = "done" /\ task[u].pc = "done"
         /\ ~(task[u].phase = task[t].phase /\ task[u].argA > task[t].argA)) =>
            /\ <<task[t].app, task[t].phase, task[t].argA>> \in appsConfig
            /\ <<task[t].app, task[t].phase, task[t].argA>> \in appsFile

====
